---- MODULE Spec2Model ----
(***************************************************************************)
(* DietTrack backend: the feedback dedup lock (feedbackController.ts,      *)
(* withKeyLock / submitFeedback), the adjustment resolver                  *)
(* (analysisController.ts, saveAdjustedAnalysis), the detection combiner   *)
(* (aiAnalysis.ts, combineAnalysisResults), the analysis pipeline          *)
(* (analyzeFood with the provider deadline of withTimeout and the          *)
(* composition lookups of ifctService.ts and nutritionEnricher.ts), the    *)
(* portion scaler (macrosFromPer100), the numbers of an item on its way    *)
(* from the provider to an adjustment, the route deadline of               *)
(* routes/analysis.ts, the composition cache of getIFCTFoodByName and the  *)
(* user serving overrides of enrichDetectedItemsWithDB.                    *)
(*                                                                         *)
(* Decimal macros (protein, carbs, fat, fiber, sugar) are kept in tenths:  *)
(* the integer 5 stands for 0.5 g.  Math.round(x) is floor(x + 1/2) and is *)
(* computed on exact rationals.                                            *)
(***************************************************************************)
EXTENDS Integers, Sequences, FiniteSets, TLC

\* ------------------------------------------------------------------ bounds
MaxCallers == 3
MaxProcs == 2
MaxFaults == 1
MaxEdits == 2
MaxAddOns == 1
MaxAdjusts == 2

Callers == 1..MaxCallers
Procs == 1..MaxProcs

\* -------------------------------------------------------- feedback: inputs
NULL == "<null>"
FEEDBACK_TABLE == "analysis_feedback"
AnalysisIds == {"a1", "not-a-uuid"}
UserIds == {NULL, "u1"}

uuidValidate(a) == a # "not-a-uuid"

VARIABLES
    IN_JEST,        \* build flag: JEST_WORKER_ID is defined
    keyLocks,       \* per process: lock key -> caller whose chain is the tail (0 = no entry)
    prevOf,         \* caller -> caller whose chain it awaits (0 = Promise.resolve())
    gate,           \* caller -> its gate promise is resolved (release() was called)
    pc,             \* caller -> position in submitFeedback
    proc,           \* caller -> process serving the request
    reqAid,         \* caller -> body.analysisId
    reqUid,         \* caller -> userId after trimming (NULL when absent)
    status,         \* caller -> HTTP status sent (0 = none yet)
    fault,          \* caller -> store fault met by this request
    TEST_STORE,     \* per process: the Jest in-memory set
    analysis_feedback, \* rows of the feedback table, in insertion order
    callOrder,      \* per process and (analysisId, userId): callers in call order of withKeyLock
    enterOrder      \* per process and (analysisId, userId): callers in critical-section entry order

fvars == <<IN_JEST, keyLocks, prevOf, gate, pc, proc, reqAid, reqUid, status,
           fault, TEST_STORE, analysis_feedback, callOrder, enterOrder>>

\* the lock key of submitFeedback: `${FEEDBACK_TABLE}:${analysisId}:${userId ?? 'NULL'}`
LockKeyGlobal(a, u) == <<FEEDBACK_TABLE>>
LockKey(a, u) == <<FEEDBACK_TABLE, a, IF u = NULL THEN "NULL" ELSE u>>

LockKeys == {<<FEEDBACK_TABLE, a, u>> : a \in AnalysisIds, u \in (UserIds \ {NULL}) \cup {"NULL"}}
           \cup {<<FEEDBACK_TABLE>>}
Pairs == AnalysisIds \X UserIds

\* `keyLocks.get(key) || Promise.resolve()`
TailOfNone(p, key) == 0
TailOf(p, key) == keyLocks[p][key]

\* a chain promise prev.then(() => gate) is resolved once prev and gate are
RECURSIVE ChainResolved(_)
ChainResolved(c) ==
    IF c = 0 THEN TRUE
    ELSE gate[c] /\ ChainResolved(prevOf[c])

\* `await prev` of withKeyLock has completed
PrevResolvedNoWait(c) == TRUE
PrevResolved(c) == ChainResolved(prevOf[c])

\* the pre-check select of submitFeedback
ExistsRowNever(a, u) == FALSE
ExistsRow(a, u) ==
    \E i \in 1..Len(analysis_feedback) :
        /\ analysis_feedback[i].analysis_id = a
        /\ analysis_feedback[i].user_id = u

\* UNIQUE(analysis_id, user_id) of the schema: SQL NULLs are distinct, a
\* row with user_id NULL never conflicts with another row
UniqueViolation(a, u) ==
    /\ u # NULL
    /\ \E i \in 1..Len(analysis_feedback) :
        /\ analysis_feedback[i].analysis_id = a
        /\ analysis_feedback[i].user_id = u

FaultsLeft == Cardinality({c \in Callers : fault[c] # "none"}) < MaxFaults

FInit ==
    /\ IN_JEST \in BOOLEAN
    /\ keyLocks = [p \in Procs |-> [k \in LockKeys |-> 0]]
    /\ prevOf = [c \in Callers |-> 0]
    /\ gate = [c \in Callers |-> FALSE]
    /\ pc = [c \in Callers |-> "idle"]
    /\ proc = [c \in Callers |-> 1]
    /\ reqAid = [c \in Callers |-> "a1"]
    /\ reqUid = [c \in Callers |-> NULL]
    /\ status = [c \in Callers |-> 0]
    /\ fault = [c \in Callers |-> "none"]
    /\ TEST_STORE = [p \in Procs |-> {}]
    /\ analysis_feedback = <<>>
    /\ callOrder = [p \in Procs |-> [k \in Pairs |-> <<>>]]
    /\ enterOrder = [p \in Procs |-> [k \in Pairs |-> <<>>]]

\* ------------------------------------------------ adjustment: state (below)
VARIABLES
    food_analyses,  \* the stored analysis record (one row of food_analyses)
    persisted,      \* what the analysis originally persisted in that row
    areq,           \* the last adjustment request
    ares,           \* the last response of saveAdjustedAnalysis
    now             \* clock used for adjusted_at

avars == <<food_analyses, persisted, areq, ares, now>>

\* the detection combiner (aiAnalysis.ts, combineAnalysisResults)
VARIABLES
    analyses,       \* the provider result sets handed to combineAnalysisResults
    combined        \* what it returned (NotCombined before the call)

cvars == <<analyses, combined>>

\* the analysis pipeline (analysisController.ts analyzeFood, aiAnalysis.ts,
\* ifctService.ts, nutritionEnricher.ts)
VARIABLES
    revision,       \* the revision of analyzeFood deployed (its persistence table)
    preq,           \* the analysis request
    ppc,            \* position of analyzeFood
    timer,          \* the setTimeout of withTimeout
    call,           \* the promise of the provider call (runGeminiJSON)
    callValue,      \* what the provider call resolved with
    raced,          \* the promise withTimeout returned
    detectedRaw,    \* detectedRaw of analyzeFood
    todo,           \* names the current stage still has to look up
    staged,         \* results the current stage has collected
    displayItems,   \* displayItems of analyzeFood
    lastLookup,     \* the composition lookup of the current stage that last went to the store
    CACHE,          \* the in-process cache of getIFCTFoodByName
    writeDone,      \* outcome of the final insert
    stored_rows,    \* rows inserted by analyzeFood
    pres,           \* the response of analyzeFood (what it hands to res.json)
    routeTimer,     \* the setTimeout of the route-level withTimeout
    sent            \* the responses that went to the client, in order

pvars == <<revision, preq, ppc, timer, call, callValue, raced, detectedRaw, todo,
           staged, displayItems, lastLookup, CACHE, writeDone, stored_rows, pres,
           routeTimer, sent>>

\* the portion scaler (nutritionEnricher.ts, macrosFromPer100) followed by the
\* rescaling of saveAdjustedAnalysis
VARIABLES
    sPer100,        \* per-100 g macros of a composition match, in hundredths
    sGrams,         \* the grams they are scaled to
    sStored,        \* the item stored with the scaled macros (NoItem before)
    sBack           \* that item adjusted back to 100 g (NoItem before)

svars == <<sPer100, sGrams, sStored, sBack>>

\* the numbers of one item on its way through normalizeItemsFromLLM,
\* mapEnrichedToDetected and saveAdjustedAnalysis
VARIABLES
    wRaw,           \* one element of the provider's detectedItems, as parsed JSON
    wItem,          \* the item normalizeItemsFromLLM made of it (NoWire before)
    wShown,         \* the display item mapEnrichedToDetected made (NoWire before)
    wAdjusted       \* the adjusted item of saveAdjustedAnalysis (NoWire before)

wvars == <<wRaw, wItem, wShown, wAdjusted>>

\* the cache of getIFCTFoodByName with its clock and the calls in flight
\* (ifctService.ts)
VARIABLES
    clock,          \* Date.now(), in ticks
    CACHE_t,        \* CACHE: key -> { v, t } (NoEntry: no entry)
    lookups,        \* the calls of getIFCTFoodByName, in the order they started
    lastSet         \* per key: the last CACHE.set (who, when, what)

kvars == <<clock, CACHE_t, lookups, lastSet>>

\* enrichDetectedItemsWithDB for one item, after its lookups
\* (nutritionEnricher.ts)
VARIABLES
    user_servings,  \* rows of the user_servings table
    gItem,          \* the item handed to enrichDetectedItemsWithDB
    gUserId,        \* its userId argument (NULL when absent)
    gPick,          \* the pick of the two lookups (NoPick: none)
    userServings,   \* the rows the user_servings select gave
    gOut            \* the item returned (NotEnriched before the call)

gvars == <<user_servings, gItem, gUserId, gPick, userServings, gOut>>

xvars == <<cvars, pvars, svars, wvars, kvars, gvars>>

\* what the actions of each part leave alone
cothers == <<fvars, avars, pvars, svars, wvars, kvars, gvars>>
pothers == <<fvars, avars, cvars, svars, wvars, kvars, gvars>>
sothers == <<fvars, avars, cvars, pvars, wvars, kvars, gvars>>
wothers == <<fvars, avars, cvars, pvars, svars, kvars, gvars>>
kothers == <<fvars, avars, cvars, pvars, svars, wvars, gvars>>
gothers == <<fvars, avars, cvars, pvars, svars, wvars, kvars>>

vars == <<fvars, avars, xvars>>

\* ------------------------------------------------------- feedback: actions

\* submitFeedback up to `await prev` of withKeyLock: validation, then the
\* synchronous head of withKeyLock
Submit(c, p, a, u) ==
    /\ pc[c] = "idle"
    /\ \A d \in Callers : d < c => pc[d] # "idle"
    \* callers and processes are interchangeable: requests are numbered in
    \* arrival order, processes in order of first use
    /\ \A q \in Procs : q < p => \E d \in Callers : d < c /\ proc[d] = q
    /\ proc' = [proc EXCEPT ![c] = p]
    /\ reqAid' = [reqAid EXCEPT ![c] = a]
    /\ reqUid' = [reqUid EXCEPT ![c] = u]
    /\ IF ~uuidValidate(a)
       THEN /\ status' = [status EXCEPT ![c] = 400]
            /\ pc' = [pc EXCEPT ![c] = "done"]
            /\ UNCHANGED <<keyLocks, prevOf, callOrder>>
       ELSE LET key == LockKey(a, u) IN
            /\ prevOf' = [prevOf EXCEPT ![c] = TailOf(p, key)]
            /\ keyLocks' = [keyLocks EXCEPT ![p][key] = c]
            /\ callOrder' = [callOrder EXCEPT ![p][<<a, u>>] = Append(@, c)]
            /\ pc' = [pc EXCEPT ![c] = "waiting"]
            /\ UNCHANGED status
    /\ UNCHANGED <<IN_JEST, gate, fault, TEST_STORE, analysis_feedback, enterOrder>>
    /\ UNCHANGED <<avars, xvars>>

\* `await prev` resumes and fn() runs to its first await.  Under Jest the
\* whole critical section is synchronous.
Enter(c) ==
    /\ pc[c] = "waiting"
    /\ PrevResolved(c)
    /\ enterOrder' = [enterOrder EXCEPT ![proc[c]][<<reqAid[c], reqUid[c]>>] = Append(@, c)]
    /\ IF IN_JEST
       THEN LET k == <<reqAid[c], reqUid[c]>> IN
            IF k \in TEST_STORE[proc[c]]
            THEN /\ status' = [status EXCEPT ![c] = 409]
                 /\ UNCHANGED TEST_STORE
                 /\ pc' = [pc EXCEPT ![c] = "exit"]
            ELSE /\ TEST_STORE' = [TEST_STORE EXCEPT ![proc[c]] = @ \cup {k}]
                 /\ status' = [status EXCEPT ![c] = 201]
                 /\ pc' = [pc EXCEPT ![c] = "exit"]
       ELSE /\ pc' = [pc EXCEPT ![c] = "precheck"]
            /\ UNCHANGED <<status, TEST_STORE>>
    /\ UNCHANGED <<IN_JEST, keyLocks, prevOf, gate, proc, reqAid, reqUid, fault,
                   analysis_feedback, callOrder>>
    /\ UNCHANGED <<avars, xvars>>

\* the pre-check select answers: a row exists -> 409, else go on to insert
PreCheck(c) ==
    /\ pc[c] = "precheck"
    /\ IF ExistsRow(reqAid[c], reqUid[c])
       THEN /\ status' = [status EXCEPT ![c] = 409]
            /\ pc' = [pc EXCEPT ![c] = "exit"]
       ELSE /\ pc' = [pc EXCEPT ![c] = "insert"]
            /\ UNCHANGED status
    /\ UNCHANGED <<IN_JEST, keyLocks, prevOf, gate, proc, reqAid, reqUid, fault,
                   TEST_STORE, analysis_feedback, callOrder, enterOrder>>
    /\ UNCHANGED <<avars, xvars>>

\* the pre-check select answers with an error (preErr): the code goes on to
\* the insert
PreCheckError(c) ==
    /\ pc[c] = "precheck"
    /\ FaultsLeft
    /\ fault' = [fault EXCEPT ![c] = "preErr"]
    /\ pc' = [pc EXCEPT ![c] = "insert"]
    /\ UNCHANGED <<IN_JEST, keyLocks, prevOf, gate, proc, reqAid, reqUid, status,
                   TEST_STORE, analysis_feedback, callOrder, enterOrder>>
    /\ UNCHANGED <<avars, xvars>>

\* the insert answers: the store applies its uniqueness constraint
Insert(c) ==
    /\ pc[c] = "insert"
    /\ IF UniqueViolation(reqAid[c], reqUid[c])
       THEN /\ status' = [status EXCEPT ![c] = 409]
            /\ pc' = [pc EXCEPT ![c] = "exit"]
            /\ UNCHANGED analysis_feedback
       ELSE /\ analysis_feedback' = Append(analysis_feedback,
                    [analysis_id |-> reqAid[c], user_id |-> reqUid[c], by |-> c])
            /\ pc' = [pc EXCEPT ![c] = "flag"]
            /\ UNCHANGED status
    /\ UNCHANGED <<IN_JEST, keyLocks, prevOf, gate, proc, reqAid, reqUid, fault,
                   TEST_STORE, callOrder, enterOrder>>
    /\ UNCHANGED <<avars, xvars>>

\* the insert answers with another error: 23503 -> 404, anything else -> 500
InsertError(c, code) ==
    /\ pc[c] = "insert"
    /\ FaultsLeft
    /\ fault' = [fault EXCEPT ![c] = code]
    /\ status' = [status EXCEPT ![c] = IF code = "23503" THEN 404 ELSE 500]
    /\ pc' = [pc EXCEPT ![c] = "exit"]
    /\ UNCHANGED <<IN_JEST, keyLocks, prevOf, gate, proc, reqAid, reqUid,
                   TEST_STORE, analysis_feedback, callOrder, enterOrder>>
    /\ UNCHANGED <<avars, xvars>>

\* best-effort meal_logs update (errors ignored), then the 201 response
Flag(c) ==
    /\ pc[c] = "flag"
    /\ status' = [status EXCEPT ![c] = 201]
    /\ pc' = [pc EXCEPT ![c] = "exit"]
    /\ UNCHANGED <<IN_JEST, keyLocks, prevOf, gate, proc, reqAid, reqUid, fault,
                   TEST_STORE, analysis_feedback, callOrder, enterOrder>>
    /\ UNCHANGED <<avars, xvars>>

\* a store call of the critical section rejects: fn() throws
Throw(c) ==
    /\ pc[c] \in {"precheck", "insert"}
    /\ FaultsLeft
    /\ fault' = [fault EXCEPT ![c] = "throw"]
    /\ pc' = [pc EXCEPT ![c] = "exit"]
    /\ UNCHANGED <<IN_JEST, keyLocks, prevOf, gate, proc, reqAid, reqUid, status,
                   TEST_STORE, analysis_feedback, callOrder, enterOrder>>
    /\ UNCHANGED <<avars, xvars>>

\* `if (keyLocks.get(key) === chain)` of the finally block: the entry is
\* still the chain this caller stored
IsTailChainAlways(p, key, c) == TRUE
IsTailChain(p, key, c) == keyLocks[p][key] = c

\* `release()` stands in the finally block: it runs whether fn() returned
\* or threw
releaseOnReturnOnly(c) == gate[c] \/ fault[c] # "throw"
releaseInFinally(c) == TRUE

\* the finally block of withKeyLock, then (after a throw) the catch of
\* submitFeedback
Release(c) ==
    /\ pc[c] = "exit"
    /\ gate' = [gate EXCEPT ![c] = releaseInFinally(c)]
    /\ keyLocks' = IF IsTailChain(proc[c], LockKey(reqAid[c], reqUid[c]), c)
                   THEN [keyLocks EXCEPT ![proc[c]][LockKey(reqAid[c], reqUid[c])] = 0]
                   ELSE keyLocks
    /\ status' = IF fault[c] = "throw" THEN [status EXCEPT ![c] = 500] ELSE status
    /\ pc' = [pc EXCEPT ![c] = "done"]
    /\ UNCHANGED <<IN_JEST, prevOf, proc, reqAid, reqUid, fault,
                   TEST_STORE, analysis_feedback, callOrder, enterOrder>>
    /\ UNCHANGED <<avars, xvars>>

FNext ==
    \/ \E c \in Callers, p \in Procs, a \in AnalysisIds, u \in UserIds : Submit(c, p, a, u)
    \/ \E c \in Callers : Enter(c)
    \/ \E c \in Callers : PreCheck(c)
    \/ \E c \in Callers : PreCheckError(c)
    \/ \E c \in Callers : Insert(c)
    \/ \E c \in Callers, code \in {"23503", "other"} : InsertError(c, code)
    \/ \E c \in Callers : Flag(c)
    \/ \E c \in Callers : Throw(c)
    \/ \E c \in Callers : Release(c)

\* ------------------------------------------------- adjustment: inputs
Comps == {"calories", "protein", "carbs", "fat", "fiber", "sugar", "sodium", "cholesterol"}
NoNut == [x \in {} |-> 0]
Nut(cal, pro, car, fat, fib, sug, sod, cho) ==
    [x \in Comps |->
        CASE x = "calories" -> cal [] x = "protein" -> pro [] x = "carbs" -> car
          [] x = "fat" -> fat [] x = "fiber" -> fib [] x = "sugar" -> sug
          [] x = "sodium" -> sod [] OTHER -> cho]

\* stored items; estimatedGrams 0 stands for an absent value
Rice == [itemId |-> 1, name |-> "rice", estimatedGrams |-> 150,
         nutrition |-> Nut(200, 40, 440, 5, 5, 0, 5, 0),
         nutritionPer100g |-> Nut(133, 3, 29, 0, 0, 0, 3, 0)]
Dal == [itemId |-> 2, name |-> "dal", estimatedGrams |-> 0,
        nutrition |-> Nut(120, 70, 150, 35, 40, 10, 200, 0),
        nutritionPer100g |-> NoNut]

\* entries of adjustedItems[] a client sends; grams 0 stands for an absent
\* portionSize.estimatedGrams, NoNut for an absent nutrition
EditInputs ==
    {[itemId |-> 1, grams |-> 200, nutrition |-> NoNut],
     [itemId |-> 1, grams |-> 0, nutrition |-> NoNut],
     [itemId |-> 1, grams |-> 150, nutrition |-> NoNut],
     [itemId |-> 1, grams |-> 200, nutrition |-> [x \in {"calories", "fat"} |-> IF x = "fat" THEN 20 ELSE 300]],
     [itemId |-> 1, grams |-> 0, nutrition |-> [x \in {"calories", "fat"} |-> IF x = "fat" THEN 20 ELSE 300]],
     [itemId |-> 2, grams |-> 50, nutrition |-> NoNut],
     [itemId |-> 9, grams |-> 100, nutrition |-> NoNut]}
FollowUpEdits ==
    {[itemId |-> 1, grams |-> 200, nutrition |-> NoNut],
     [itemId |-> 9, grams |-> 100, nutrition |-> NoNut]}
AddOnInputs ==
    {[name |-> "ghee", grams |-> 10, calories |-> 0, protein |-> 0, carbs |-> 0, fat |-> 0],
     [name |-> "egg", grams |-> 0, calories |-> 70, protein |-> 60, carbs |-> 5, fat |-> 50]}

SeqsUpTo(S, n) == UNION {[1..k -> S] : k \in 0..n}

\* --------------------------------------------- adjustment: pure functions

\* Math.round(num / den) for den > 0
Round(num, den) == (2 * num + den) \div (2 * den)

RECURSIVE FilterSeq(_, _)
\* Array.prototype.filter with the predicate "itemId is in ids"
FilterSeq(sq, ids) ==
    IF sq = <<>> THEN <<>>
    ELSE IF Head(sq).itemId \in ids
         THEN <<Head(sq)>> \o FilterSeq(Tail(sq), ids)
         ELSE FilterSeq(Tail(sq), ids)

\* baseById: the key set of the map, and get() (the last item wins)
BaseIds(baseItems) == {baseItems[i].itemId : i \in 1..Len(baseItems)}
BaseGet(baseItems, id) ==
    LET I == {i \in 1..Len(baseItems) : baseItems[i].itemId = id}
    IN baseItems[CHOOSE i \in I : \A j \in I : j <= i]

\* unknownIds
UnknownIds(adjusted, baseItems) ==
    LET ids == [i \in 1..Len(adjusted) |-> [itemId |-> adjusted[i].itemId]]
        unk == FilterSeq(ids, {ids[i].itemId : i \in 1..Len(ids)} \ BaseIds(baseItems))
    IN [i \in 1..Len(unk) |-> unk[i].itemId]

\* `unknownIds.length === adjusted.length`
RejectAnyUnknown(adjusted, baseItems) == Len(UnknownIds(adjusted, baseItems)) > 0
RejectAllUnknown(adjusted, baseItems) ==
    Len(UnknownIds(adjusted, baseItems)) = Len(adjusted)

OldG(base) == IF base.estimatedGrams = 0 THEN 100 ELSE base.estimatedGrams
NewG(a, base) == IF a.grams = 0 THEN OldG(base) ELSE a.grams

\* the value scaled: `n?.x ?? base.nutrition.x` with n = a.nutrition || base.nutrition
SourceValue(a, base, x) ==
    IF x \in DOMAIN a.nutrition THEN a.nutrition[x] ELSE base.nutrition[x]

\* the map callback building one adjusted item
AdjustItem(a, base) ==
    LET oldG == OldG(base)
        newG == NewG(a, base)
        scaled == [x \in Comps |->
                     IF oldG > 0 THEN Round(SourceValue(a, base, x) * newG, oldG)
                     ELSE SourceValue(a, base, x)]
        per100 == IF newG > 0
                  THEN [x \in Comps |-> Round(scaled[x] * 100, newG)]
                  ELSE base.nutritionPer100g
    IN [itemId |-> a.itemId, name |-> base.name, estimatedGrams |-> newG,
        nutrition |-> scaled,
        nutritionPer100g |-> IF base.nutritionPer100g # NoNut
                             THEN base.nutritionPer100g ELSE per100]

\* finalItems
FinalItems(adjusted, baseItems) ==
    LET known == FilterSeq(adjusted, BaseIds(baseItems))
    IN [i \in 1..Len(known) |-> AdjustItem(known[i], BaseGet(baseItems, known[i].itemId))]

ZeroTotals == [total_calories |-> 0, total_protein |-> 0, total_carbs |-> 0, total_fat |-> 0]

RECURSIVE SumItems(_, _)
\* the reduce over finalItems
SumItems(items, acc) ==
    IF items = <<>> THEN acc
    ELSE SumItems(Tail(items),
            [total_calories |-> acc.total_calories + Head(items).nutrition["calories"],
             total_protein |-> acc.total_protein + Head(items).nutrition["protein"],
             total_carbs |-> acc.total_carbs + Head(items).nutrition["carbs"],
             total_fat |-> acc.total_fat + Head(items).nutrition["fat"]])

RECURSIVE SumAddOns(_, _)
\* the loop over the add-ons of the payload: only macros carried by the
\* payload are added
SumAddOns(addOns, acc) ==
    IF addOns = <<>> THEN acc
    ELSE SumAddOns(Tail(addOns),
            [total_calories |-> acc.total_calories + Head(addOns).calories,
             total_protein |-> acc.total_protein + Head(addOns).protein,
             total_carbs |-> acc.total_carbs + Head(addOns).carbs,
             total_fat |-> acc.total_fat + Head(addOns).fat])

Totals(finalItems, addOns) == SumAddOns(addOns, SumItems(finalItems, ZeroTotals))

\* an analysis row as analyzeFood persisted it
StoredRow(items, uid) ==
    [exists |-> TRUE, id |-> "r1", user_id |-> uid,
     detected_items |-> items,
     nutrition_summary |-> SumItems(items, ZeroTotals),
     feedback_received |-> FALSE,
     adjusted_items |-> <<>>,
     adjusted_nutrition_summary |-> ZeroTotals,
     adjusted_by |-> NULL, adjusted_at |-> 0]
\* no row with the requested id
NoRow == [StoredRow(<<>>, NULL) EXCEPT !.exists = FALSE, !.id = ""]
StoredRows ==
    {StoredRow(<<Rice>>, "user-123"), StoredRow(<<Rice, Dal>>, NULL)}

\* adjustedBy
AdjustedBy(userId, row) == IF userId # NULL THEN userId ELSE row.user_id

\* the update of the food_analyses row
ApplyUpdateOverwrite(row, finalItems, totals, by, at) ==
    [row EXCEPT !.detected_items = finalItems,
                !.adjusted_items = finalItems,
                !.adjusted_nutrition_summary = totals,
                !.feedback_received = TRUE,
                !.adjusted_by = by,
                !.adjusted_at = at]
ApplyUpdate(row, finalItems, totals, by, at) ==
    [row EXCEPT !.adjusted_items = finalItems,
                !.adjusted_nutrition_summary = totals,
                !.feedback_received = TRUE,
                !.adjusted_by = by,
                !.adjusted_at = at]

\* inferAddOnFromPreset of the analyze controller: ghee/oil 9 kcal/g and
\* 1 g fat/g, butter 7.2 kcal/g, cheese/paneer 4.0 kcal/g (macros in tenths)
InferAddOnFromPreset(name, grams) ==
    CASE name \in {"ghee", "oil"} ->
            [calories |-> 9 * grams, protein |-> 0, carbs |-> 0, fat |-> 10 * grams]
      [] name = "butter" ->
            [calories |-> Round(72 * grams, 10), protein |-> Round(grams, 10),
             carbs |-> Round(grams, 10), fat |-> 8 * grams]
      [] name \in {"cheese", "paneer"} ->
            [calories |-> 4 * grams, protein |-> Round(25 * grams, 10),
             carbs |-> Round(2 * grams, 10), fat |-> Round(33 * grams, 10)]
      [] OTHER -> [calories |-> 0, protein |-> 0, carbs |-> 0, fat |-> 0]

\* ------------------------------------------------- adjustment: actions
NoReq == [id |-> "", adjustedItems |-> <<>>, ingredientAddOns |-> <<>>, userId |-> NULL]
NoRes == [status |-> 0, code |-> "", adjustedItems |-> <<>>,
          nutritionSummary |-> ZeroTotals, ignoredItemIds |-> <<>>]
Fail(st, code) == [NoRes EXCEPT !.status = st, !.code = code]

AInit ==
    /\ food_analyses \in StoredRows \cup {NoRow}
    /\ persisted = food_analyses
    /\ areq = NoReq
    /\ ares = NoRes
    /\ now = 0

\* saveAdjustedAnalysis, the whole handler: id check, select of the row,
\* payload checks, scaling, totals, update of the row, response.  fetchErr
\* and updErr are the answers of the two store calls.
SaveAdjustedAnalysis(id, adjusted, addOns, userId, fetchErr, updErr) ==
    /\ now < MaxAdjusts
    /\ now' = now + 1
    /\ areq' = [id |-> id, adjustedItems |-> adjusted, ingredientAddOns |-> addOns,
                userId |-> userId]
    /\ IF id = "bad"
       THEN /\ ares' = Fail(400, "BAD_ID")
            /\ UNCHANGED food_analyses
       ELSE IF fetchErr \/ ~food_analyses.exists \/ food_analyses.id # id
       THEN /\ ares' = Fail(404, "NOT_FOUND")
            /\ UNCHANGED food_analyses
       ELSE IF adjusted = <<>>
       THEN /\ ares' = Fail(400, "BAD_PAYLOAD")
            /\ UNCHANGED food_analyses
       ELSE IF RejectAllUnknown(adjusted, food_analyses.detected_items)
       THEN /\ ares' = Fail(400, "BAD_PAYLOAD")
            /\ UNCHANGED food_analyses
       ELSE LET baseItems == food_analyses.detected_items
                finalItems == FinalItems(adjusted, baseItems)
                totals == Totals(finalItems, addOns)
            IN IF updErr
               THEN /\ ares' = Fail(500, "DATABASE_ERROR")
                    /\ UNCHANGED food_analyses
               ELSE /\ food_analyses' = ApplyUpdate(food_analyses, finalItems, totals,
                                            AdjustedBy(userId, food_analyses), now + 1)
                    /\ ares' = [status |-> 200, code |-> "",
                                adjustedItems |-> finalItems,
                                nutritionSummary |-> totals,
                                ignoredItemIds |-> UnknownIds(adjusted, baseItems)]
    /\ UNCHANGED persisted
    /\ UNCHANGED <<fvars, xvars>>

\* the first request of a behaviour is any request; later requests come from
\* a smaller menu
FirstAdjust ==
    /\ now = 0
    /\ \/ \E adjusted \in SeqsUpTo(EditInputs, MaxEdits),
             addOns \in SeqsUpTo(AddOnInputs, MaxAddOns),
             userId \in {NULL, "u2"}, updErr \in BOOLEAN :
                SaveAdjustedAnalysis("r1", adjusted, addOns, userId, FALSE, updErr)
       \/ \E id \in {"bad", "r1", "r2"}, fetchErr \in BOOLEAN :
                SaveAdjustedAnalysis(id, <<>>, <<>>, NULL, fetchErr, FALSE)

LaterAdjust ==
    /\ now > 0
    /\ \E adjusted \in SeqsUpTo(FollowUpEdits, MaxEdits), userId \in {NULL, "u2"},
          updErr \in BOOLEAN :
            SaveAdjustedAnalysis("r1", adjusted, <<>>, userId, FALSE, updErr)

ANext == FirstAdjust \/ LaterAdjust

\* ------------------------------------------------------- combiner: inputs
\* ----------------------------------------------------------------- strings
\* a string is a sequence of characters
\* String.prototype.toLowerCase
LowerChar(ch) ==
    IF ch = "R" THEN "r" ELSE IF ch = "D" THEN "d" ELSE IF ch = "K" THEN "k" ELSE ch
toLowerCase(str) == [i \in 1..Len(str) |-> LowerChar(str[i])]

\* String.prototype.trim
RECURSIVE trimStart(_)
trimStart(str) ==
    IF str # <<>> /\ Head(str) = " " THEN trimStart(Tail(str)) ELSE str
RECURSIVE trimEnd(_)
trimEnd(str) ==
    IF str # <<>> /\ str[Len(str)] = " "
    THEN trimEnd(SubSeq(str, 1, Len(str) - 1))
    ELSE str
trim(str) == trimEnd(trimStart(str))

\* ------------------------------------------------------- combiner: inputs
MaxSets == 2
MaxSetItems == 1

\* a confidence is a rational number of hundredths: num / den hundredths
Conf(c) == [num |-> c, den |-> 1]

\* detected items as a provider adapter hands them over; itemId 0 stands for
\* an absent itemId, the empty string for an absent name
ItemInputs ==
    {[itemId |-> i, name |-> n, confidence |-> Conf(c)] :
        i \in {0, 1}, n \in {<<"r">>}, c \in {0, 60, 80}}
    \cup {[itemId |-> i, name |-> n, confidence |-> Conf(60)] :
            i \in {0, 1}, n \in {<<>>, <<" ", "R">>}}
ProcessingTimes == {12}
SetInputs ==
    {[provider |-> p, detectedItems |-> its, confidence |-> Conf(c),
      processingTimeMs |-> t] :
        p \in {"gemini", "vision"}, its \in SeqsUpTo(ItemInputs, MaxSetItems),
        c \in {0, 90}, t \in ProcessingTimes}

\* ---------------------------------------------- combiner: pure functions

\* clamp01 = Math.max(0, Math.min(1, n))
clamp01(q) ==
    IF q.num > 100 * q.den THEN Conf(100)
    ELSE IF q.num < 0 THEN Conf(0)
    ELSE q

\* makeKey(it, idx): `id:${id}`, `name:${nm}` with
\* nm = name.toLowerCase().trim(), or `idx:${idx}`
makeKeyRawName(it, idx) ==
    IF it.itemId > 0 THEN [kind |-> "id", n |-> it.itemId, s |-> <<>>]
    ELSE IF it.name # <<>> THEN [kind |-> "name", n |-> 0, s |-> it.name]
    ELSE [kind |-> "idx", n |-> idx, s |-> <<>>]
makeKey(it, idx) ==
    IF it.itemId > 0 THEN [kind |-> "id", n |-> it.itemId, s |-> <<>>]
    ELSE IF trim(toLowerCase(it.name)) # <<>>
    THEN [kind |-> "name", n |-> 0, s |-> trim(toLowerCase(it.name))]
    ELSE [kind |-> "idx", n |-> idx, s |-> <<>>]

\* the items of one result set with their keys (forEach((it, idx) => ...))
KeyedItems(items) ==
    [j \in 1..Len(items) |-> [key |-> makeKey(items[j], j - 1), item |-> items[j]]]

RECURSIVE Flatten(_)
\* the outer loop `for (const a of analyses)`: all items in encounter order
Flatten(sets) ==
    IF sets = <<>> THEN <<>>
    ELSE KeyedItems(Head(sets).detectedItems) \o Flatten(Tail(sets))

RECURSIVE KeysInOrder(_, _)
\* byKey.keys(): a Map iterates in insertion order
KeysInOrder(flat, seen) ==
    IF flat = <<>> THEN <<>>
    ELSE IF Head(flat).key \in seen THEN KeysInOrder(Tail(flat), seen)
    ELSE <<Head(flat).key>> \o KeysInOrder(Tail(flat), seen \cup {Head(flat).key})

RECURSIVE GroupOf(_, _)
\* byKey.get(k): the members of a group in encounter order
GroupOf(flat, k) ==
    IF flat = <<>> THEN <<>>
    ELSE (IF Head(flat).key = k THEN <<Head(flat).item>> ELSE <<>>)
         \o GroupOf(Tail(flat), k)

RECURSIVE SumOr(_, _)
\* reduce((s, x) => s + (x.confidence || d), 0), in hundredths; the
\* confidences summed are those of provider output (den = 1)
SumOr(sq, d) ==
    IF sq = <<>> THEN 0
    ELSE (IF Head(sq).confidence.num = 0 THEN d ELSE Head(sq).confidence.num)
         + SumOr(Tail(sq), d)

RECURSIVE MaxTime(_)
\* Math.max(...analyses.map((a) => a.processingTimeMs))
MaxTime(sets) ==
    IF Len(sets) = 1 THEN Head(sets).processingTimeMs
    ELSE LET m == MaxTime(Tail(sets))
         IN IF Head(sets).processingTimeMs >= m THEN Head(sets).processingTimeMs ELSE m

\* one merged item: the base's fields, its itemId or i + 1, the group's
\* average confidence
MergedItem(group, i) ==
    [itemId |-> IF group[1].itemId = 0 THEN i + 1 ELSE group[1].itemId,
     name |-> group[1].name,
     confidence |-> clamp01([num |-> SumOr(group, 60), den |-> Len(group)])]

\* the general path of combineAnalysisResults
Merge(sets) ==
    LET flat == Flatten(sets)
        keys == KeysInOrder(flat, {})
    IN [provider |-> IF \E j \in 1..Len(sets) : sets[j].provider = "gemini"
                     THEN "gemini" ELSE "vision",
        detectedItems |-> [g \in 1..Len(keys) |-> MergedItem(GroupOf(flat, keys[g]), g - 1)],
        confidence |-> clamp01([num |-> SumOr(sets, 50), den |-> Len(sets)]),
        processingTimeMs |-> MaxTime(sets)]

EmptyAnalysis ==
    [provider |-> "vision", detectedItems |-> <<>>, confidence |-> Conf(50),
     processingTimeMs |-> 0]

combineAlwaysMerges(sets) ==
    IF Len(sets) = 0 THEN EmptyAnalysis ELSE Merge(sets)
combineAnalysisResults(sets) ==
    IF Len(sets) = 0 THEN EmptyAnalysis
    ELSE IF Len(sets) = 1 THEN sets[1]
    ELSE Merge(sets)

\* ------------------------------------------------------ combiner: actions
NotCombined ==
    [provider |-> "", detectedItems |-> <<>>, confidence |-> Conf(0),
     processingTimeMs |-> 0]

CInit ==
    /\ analyses \in SeqsUpTo(SetInputs, MaxSets)
    /\ combined = NotCombined

\* one call of combineAnalysisResults
CombineAnalysisResults ==
    /\ combined = NotCombined
    /\ combined' = combineAnalysisResults(analyses)
    /\ UNCHANGED analyses
    /\ UNCHANGED cothers

CNext == CombineAnalysisResults

CIdle ==
    /\ analyses = <<>>
    /\ combined = NotCombined

\* ------------------------------------------------------- analysis: inputs
MaxNames == 1

\* the names a prompt splits into; the provider detects at most rice
FoodNames == {"rice", "dal"}
Prompts == SeqsUpTo(FoodNames, MaxNames)
Revisions == {"meal_logs", "food_analyses"}

\* what one store rpc answers: rows, no rows, { error }, or a rejection
RpcOutcomes == {"hit", "empty", "error", "throw"}
RpcFails(o) == o \in {"error", "throw"}

\* the candidate row each rpc has for a name (default_serving_g 0: null)
IngredientRow(q) ==
    [name |-> q, calories_per_100g |-> 130, default_serving_g |-> 0,
     from |-> "ingredient_lookup"]
PersonalRow(q) ==
    [name |-> q, calories_per_100g |-> 140, default_serving_g |-> 180,
     from |-> "personal_food_lookup"]
RowOf(rpc, q) == IF rpc = "ingredient_lookup" THEN IngredientRow(q) ELSE PersonalRow(q)

NoMatch == [name |-> "", calories_per_100g |-> 0, default_serving_g |-> 0, from |-> "null"]
Thrown == [name |-> "", calories_per_100g |-> 0, default_serving_g |-> 0, from |-> "throw"]

\* npos(v, fb)
npos(v, fb) == IF v > 0 THEN v ELSE fb

\* ------------------------------------------- analysis: the lookup chains

\* two rpcs tried in order, each inside its own try/catch: the first that
\* answers rows gives the match; `catches` is FALSE when a rejection of the
\* rpc escapes the chain
Chain(first, second, q, o1, o2, catches) ==
    IF o1 = "hit"
    THEN [queried |-> <<first>>, answers |-> <<o1>>, result |-> RowOf(first, q)]
    ELSE IF o1 = "throw" /\ ~catches
    THEN [queried |-> <<first>>, answers |-> <<o1>>, result |-> Thrown]
    ELSE IF o2 = "hit"
    THEN [queried |-> <<first, second>>, answers |-> <<o1, o2>>,
          result |-> RowOf(second, q)]
    ELSE IF o2 = "throw" /\ ~catches
    THEN [queried |-> <<first, second>>, answers |-> <<o1, o2>>, result |-> Thrown]
    ELSE [queried |-> <<first, second>>, answers |-> <<o1, o2>>, result |-> NoMatch]

\* fetchTopFromDB: ingredient_lookup, then personal_food_lookup with
\* p_user_id null; serving_size_g = npos(default_serving_g, 100).
\* getSupabase() ahead of the two try blocks returns the client: the
\* credentials are there, or the import of supabase.ts would have failed.
fetchTopFromDBNoCatch(q, o1, o2) ==
    LET c == Chain("ingredient_lookup", "personal_food_lookup", q, o1, o2, FALSE)
    IN IF c.result \in {NoMatch, Thrown} THEN c
       ELSE [c EXCEPT !.result.default_serving_g = npos(@, 100)]
fetchTopFromDB(q, o1, o2) ==
    LET c == Chain("ingredient_lookup", "personal_food_lookup", q, o1, o2, TRUE)
    IN IF c.result = NoMatch THEN c
       ELSE [c EXCEPT !.result.default_serving_g = npos(@, 100)]

\* the lookup of enrichDetectedItemsWithDB: personal_food_lookup with the
\* user's id, then ingredient_lookup (default_serving_g: 100)
dbLookupNoCatch(q, o1, o2) ==
    LET c == Chain("personal_food_lookup", "ingredient_lookup", q, o1, o2, FALSE)
    IN IF c.result.from = "ingredient_lookup"
       THEN [c EXCEPT !.result.default_serving_g = 100]
       ELSE c
dbLookup(q, o1, o2) ==
    LET c == Chain("personal_food_lookup", "ingredient_lookup", q, o1, o2, TRUE)
    IN IF c.result.from = "ingredient_lookup"
       THEN [c EXCEPT !.result.default_serving_g = 100]
       ELSE c

NoLookup == [by |-> "", name |-> "", queried |-> <<>>, answers |-> <<>>, result |-> NoMatch]
Lookup(by, q, c) ==
    [by |-> by, name |-> q, queried |-> c.queried, answers |-> c.answers,
     result |-> c.result]

\* ------------------------------------------------- analysis: the items

\* an item of the pipeline: confidence in hundredths, calories in kcal
GeminiItems ==
    {<<>>,
     <<[itemId |-> 1, name |-> "rice", source |-> "ai", confidence |-> 80,
        estimatedGrams |-> 150, calories |-> 200, dbMatch |-> "null"]>>}

\* the item parseTextToItems builds for one part of the prompt
ParsedItem(p, ifct, n) ==
    [itemId |-> n + 1, name |-> p, source |-> "text",
     confidence |-> IF ifct # NoMatch THEN 70 ELSE 50,
     estimatedGrams |-> IF ifct # NoMatch /\ ifct.default_serving_g > 0
                        THEN ifct.default_serving_g ELSE 150,
     calories |-> 0, dbMatch |-> "null"]

\* enrichWithIFCTData followed by mapEnrichedToDetected, for one item:
\* energy_kcal_per_serving when the match has calories, else the item's own
IfctEnriched(it, match) ==
    LET grams == npos(it.estimatedGrams, npos(match.default_serving_g, 100))
        energy == IF match.calories_per_100g > 0
                  THEN Round(match.calories_per_100g * grams, 100)
                  ELSE -1
    IN [it EXCEPT !.calories = IF energy >= 0 THEN energy
                               ELSE IF it.calories > 0 THEN it.calories ELSE 0]

\* enrichDetectedItemsWithDB for one item with a pick (the user has no
\* labelled servings): macrosFromPer100 at the item's grams
DbEnriched(it, pick) ==
    LET grams == npos(it.estimatedGrams, npos(pick.default_serving_g, 100))
    IN [it EXCEPT !.name = IF pick.name # "" THEN pick.name ELSE it.name,
                  !.calories = Round(pick.calories_per_100g * grams, 100),
                  !.estimatedGrams = grams,
                  !.dbMatch = pick.from]

RECURSIVE UniqueNames(_, _)
\* Array.from(new Set(names)): the names without repetitions, in order
UniqueNames(sq, seen) ==
    IF sq = <<>> THEN <<>>
    ELSE IF Head(sq) \in seen THEN UniqueNames(Tail(sq), seen)
    ELSE <<Head(sq)>> \o UniqueNames(Tail(sq), seen \cup {Head(sq)})

NamesOf(items) == [i \in 1..Len(items) |-> items[i].name]

\* ------------------------------------------------- analysis: the handler
NoPReq == [hasImage |-> FALSE, imageOk |-> FALSE, prompt |-> <<>>, userId |-> NULL]
NoPRes == [status |-> 0, success |-> FALSE, code |-> "", id |-> "", items |-> <<>>]
PFail(st, code) == [NoPRes EXCEPT !.status = st, !.code = code]
Uncached == [cached |-> FALSE, v |-> NoMatch]

PInit ==
    /\ revision \in Revisions
    /\ preq = NoPReq
    /\ ppc = "idle"
    /\ timer = "unset"
    /\ call = "none"
    /\ callValue = <<>>
    /\ raced = "none"
    /\ detectedRaw = <<>>
    /\ todo = <<>>
    /\ staged = <<>>
    /\ displayItems = <<>>
    /\ lastLookup = NoLookup
    /\ CACHE = [n \in FoodNames |-> Uncached]
    /\ writeDone = "none"
    /\ stored_rows = <<>>
    /\ pres = NoPRes
    /\ routeTimer = "unset"
    /\ sent = <<>>

\* the 504 of the route-level withTimeout
Timeout504 == PFail(504, "TIMEOUT")

\* res.headersSent
headersSent(s) == s # <<>>

\* the setTimeout callback of the route: `if (!res.headersSent) res.status(504).json(...)`
timeoutSendsAlways(s) == Append(s, Timeout504)
timeoutSends(s) == IF headersSent(s) THEN s ELSE <<Timeout504>>

\* res.json of the handler: once the headers are sent it throws
\* (ERR_HTTP_HEADERS_SENT), the catch of analyzeFood throws the same way on
\* its own res.status(500).json, and errorHandler returns on headersSent:
\* nothing more goes to the client
resJson(s, r) == IF headersSent(s) THEN s ELSE <<r>>

\* the handler responds with r; the route's timer was armed by the
\* middleware in front of the handler
Respond(r) ==
    /\ pres' = r
    /\ sent' = resJson(sent, r)
    /\ routeTimer' = IF routeTimer = "unset" THEN "armed" ELSE routeTimer

\* analyzeFood up to its first await: the input checks, then either the
\* provider call under withTimeout(..., 15000) or the prompt parse
AnalyzeStart(hasImage, imageOk, prompt, userId) ==
    /\ ppc = "idle"
    /\ preq' = [hasImage |-> hasImage, imageOk |-> imageOk, prompt |-> prompt,
                userId |-> userId]
    /\ IF ~hasImage /\ prompt = <<>>
       THEN /\ Respond(PFail(400, "MISSING_INPUT"))
            /\ ppc' = "done"
            /\ UNCHANGED <<timer, call, raced, todo>>
       ELSE IF hasImage /\ ~imageOk
       THEN /\ Respond(PFail(400, "BAD_IMAGE"))
            /\ ppc' = "done"
            /\ UNCHANGED <<timer, call, raced, todo>>
       ELSE IF hasImage
       THEN /\ ppc' = "provider"
            /\ call' = "running"
            /\ timer' = "armed"
            /\ raced' = "pending"
            /\ routeTimer' = "armed"
            /\ UNCHANGED <<pres, sent, todo>>
       ELSE /\ ppc' = "parse"
            /\ todo' = prompt
            /\ routeTimer' = "armed"
            /\ UNCHANGED <<pres, sent, timer, call, raced>>
    /\ UNCHANGED <<revision, callValue, detectedRaw, staged, displayItems, lastLookup,
                   CACHE, writeDone, stored_rows>>
    /\ UNCHANGED pothers

\* a promise settles once: resolve and reject of a settled promise do nothing
SettleLast(state, outcome) == outcome
Settle(state, outcome) == IF state = "pending" THEN outcome ELSE state

\* runGeminiJSON resolves: the then-callback of withTimeout clears the timer
\* and resolves the race
ProviderResolves(items) ==
    /\ call = "running"
    /\ call' = "resolved"
    /\ callValue' = items
    /\ raced' = Settle(raced, "value")
    /\ timer' = IF timer = "armed" THEN "cleared" ELSE timer
    /\ UNCHANGED <<revision, preq, ppc, detectedRaw, todo, staged, displayItems,
                   lastLookup, CACHE, writeDone, stored_rows, pres, routeTimer, sent>>
    /\ UNCHANGED pothers

\* runGeminiJSON rejects: the catch-callback clears the timer and rejects
ProviderRejects ==
    /\ call = "running"
    /\ call' = "rejected"
    /\ raced' = Settle(raced, "error")
    /\ timer' = IF timer = "armed" THEN "cleared" ELSE timer
    /\ UNCHANGED <<revision, preq, ppc, callValue, detectedRaw, todo, staged,
                   displayItems, lastLookup, CACHE, writeDone, stored_rows, pres, routeTimer, sent>>
    /\ UNCHANGED pothers

\* the setTimeout callback of withTimeout: rejects the race; nothing
\* touches the provider call
TimerFires ==
    /\ timer = "armed"
    /\ timer' = "fired"
    /\ raced' = Settle(raced, "error")
    /\ UNCHANGED <<revision, preq, ppc, call, callValue, detectedRaw, todo, staged,
                   displayItems, lastLookup, CACHE, writeDone, stored_rows, pres, routeTimer, sent>>
    /\ UNCHANGED pothers

\* analyzeWithGemini after the await (its catch returns an empty list),
\* runProviders, combineAnalysisResults of the one set, and the handler's
\* choice of the prompt parse when nothing was detected
GeminiSettled ==
    /\ ppc = "provider"
    /\ raced \in {"value", "error"}
    /\ LET items == IF raced = "value" THEN callValue ELSE <<>>
       IN IF items = <<>> /\ preq.prompt # <<>>
          THEN /\ ppc' = "parse"
               /\ todo' = preq.prompt
               /\ detectedRaw' = <<>>
          ELSE /\ ppc' = "enrich"
               /\ todo' = UniqueNames(NamesOf(items), {})
               /\ detectedRaw' = items
    /\ staged' = <<>>
    /\ UNCHANGED <<revision, preq, timer, call, callValue, raced, displayItems,
                   lastLookup, CACHE, writeDone, stored_rows, pres, routeTimer, sent>>
    /\ UNCHANGED pothers

\* the entry of the cache expires (TTL_MS)
CacheExpires(n) ==
    /\ CACHE[n].cached
    \* only a request that still reads the cache can tell
    /\ ppc \in {"parse", "enrich"}
    /\ CACHE' = [CACHE EXCEPT ![n] = Uncached]
    /\ UNCHANGED <<revision, preq, ppc, timer, call, callValue, raced, detectedRaw,
                   todo, staged, displayItems, lastLookup, writeDone, stored_rows, pres, routeTimer, sent>>
    /\ UNCHANGED pothers

\* getIFCTFoodByName: the cached value, or fetchTopFromDB and CACHE.set
getIFCTFoodByName(n, o1, o2) ==
    IF CACHE[n].cached
    THEN [hit |-> TRUE, chain |-> [queried |-> <<>>, answers |-> <<>>, result |-> CACHE[n].v]]
    ELSE [hit |-> FALSE, chain |-> fetchTopFromDB(n, o1, o2)]

\* parseTextToItems, one part of the prompt: the lookup and the item pushed
ParseLookup(o1, o2) ==
    /\ ppc = "parse"
    /\ todo # <<>>
    /\ LET n == Head(todo)
           g == getIFCTFoodByName(n, o1, o2)
       IN IF g.chain.result = Thrown
          THEN \* the rejection reaches the catch of analyzeFood
               /\ lastLookup' = Lookup("fetchTopFromDB", n, g.chain)
               /\ ppc' = "done"
               /\ Respond(PFail(500, "INTERNAL_ERROR"))
               /\ UNCHANGED <<todo, staged, CACHE>>
          ELSE /\ lastLookup' = IF g.hit THEN lastLookup
                                ELSE Lookup("fetchTopFromDB", n, g.chain)
               /\ CACHE' = IF g.hit THEN CACHE
                           ELSE [CACHE EXCEPT ![n] = [cached |-> TRUE, v |-> g.chain.result]]
               /\ staged' = Append(staged, ParsedItem(n, g.chain.result, Len(staged)))
               /\ todo' = Tail(todo)
               /\ UNCHANGED <<ppc, pres, routeTimer, sent>>
    /\ UNCHANGED <<revision, preq, timer, call, callValue, raced, detectedRaw,
                   displayItems, writeDone, stored_rows>>
    /\ UNCHANGED pothers

\* parseTextToItems returns; toIFCTDetectFormat and the de-duplicated names
\* of enrichWithIFCTData
ParseDone ==
    /\ ppc = "parse"
    /\ todo = <<>>
    /\ detectedRaw' = staged
    /\ ppc' = "enrich"
    /\ todo' = UniqueNames(NamesOf(staged), {})
    /\ staged' = <<>>
    /\ lastLookup' = NoLookup
    /\ UNCHANGED <<revision, preq, timer, call, callValue, raced, displayItems,
                   CACHE, writeDone, stored_rows, pres, routeTimer, sent>>
    /\ UNCHANGED pothers

\* displayItems after step 2 and 3 of analyzeFood; byName maps the names
\* looked up to their matches
mapEnrichedToDetected(raw, names, matches) ==
    [i \in 1..Len(raw) |->
        IfctEnriched(raw[i],
            IF \E k \in 1..Len(names) : names[k] = raw[i].name /\ k <= Len(matches)
            THEN matches[CHOOSE k \in 1..Len(names) : names[k] = raw[i].name]
            ELSE NoMatch)]

\* where analyzeFood goes after mapEnrichedToDetected
AfterMap == IF revision = "food_analyses" THEN "dbenrich" ELSE "persist"

\* enrichWithIFCTData, the lookup of one name
EnrichLookup(o1, o2) ==
    /\ ppc = "enrich"
    /\ todo # <<>>
    /\ LET n == Head(todo)
           g == getIFCTFoodByName(n, o1, o2)
       IN IF g.chain.result = Thrown
          THEN \* the catch around enrichWithIFCTData: enriched = normalized
               /\ lastLookup' = Lookup("fetchTopFromDB", n, g.chain)
               /\ displayItems' = mapEnrichedToDetected(detectedRaw, <<>>, <<>>)
               /\ ppc' = AfterMap
               /\ todo' = NamesOf(detectedRaw)
               /\ staged' = <<>>
               /\ UNCHANGED CACHE
          ELSE /\ lastLookup' = IF g.hit THEN lastLookup
                                ELSE Lookup("fetchTopFromDB", n, g.chain)
               /\ CACHE' = IF g.hit THEN CACHE
                           ELSE [CACHE EXCEPT ![n] = [cached |-> TRUE, v |-> g.chain.result]]
               /\ staged' = Append(staged, g.chain.result)
               /\ todo' = Tail(todo)
               /\ UNCHANGED <<ppc, displayItems>>
    /\ UNCHANGED <<revision, preq, timer, call, callValue, raced, detectedRaw,
                   writeDone, stored_rows, pres, routeTimer, sent>>
    /\ UNCHANGED pothers

\* enrichWithIFCTData returns and mapEnrichedToDetected builds displayItems
EnrichDone ==
    /\ ppc = "enrich"
    /\ todo = <<>>
    /\ displayItems' = mapEnrichedToDetected(detectedRaw,
                          UniqueNames(NamesOf(detectedRaw), {}), staged)
    /\ ppc' = AfterMap
    /\ todo' = NamesOf(detectedRaw)
    /\ staged' = <<>>
    /\ lastLookup' = NoLookup
    /\ UNCHANGED <<revision, preq, timer, call, callValue, raced, detectedRaw,
                   CACHE, writeDone, stored_rows, pres, routeTimer, sent>>
    /\ UNCHANGED pothers

\* enrichDetectedItemsWithDB, one item of the Promise.all
DbLookup(o1, o2) ==
    /\ ppc = "dbenrich"
    /\ todo # <<>>
    /\ LET n == Head(todo)
           it == displayItems[Len(staged) + 1]
           c == dbLookup(n, o1, o2)
       IN /\ lastLookup' = Lookup("enrichDetectedItemsWithDB", n, c)
          /\ IF c.result = Thrown
             THEN \* the catch around enrichDetectedItemsWithDB
                  /\ ppc' = "persist"
                  /\ todo' = <<>>
                  /\ staged' = <<>>
             ELSE /\ staged' = Append(staged, IF c.result = NoMatch THEN it
                                        ELSE DbEnriched(it, c.result))
                  /\ todo' = Tail(todo)
                  /\ UNCHANGED ppc
    /\ UNCHANGED <<revision, preq, timer, call, callValue, raced, detectedRaw,
                   displayItems, CACHE, writeDone, stored_rows, pres, routeTimer, sent>>
    /\ UNCHANGED pothers

\* enrichDetectedItemsWithDB returns
DbDone ==
    /\ ppc = "dbenrich"
    /\ todo = <<>>
    /\ displayItems' = staged
    /\ ppc' = "persist"
    /\ staged' = <<>>
    /\ lastLookup' = NoLookup
    /\ UNCHANGED <<revision, preq, timer, call, callValue, raced, detectedRaw,
                   todo, CACHE, writeDone, stored_rows, pres, routeTimer, sent>>
    /\ UNCHANGED pothers

\* step 5 of analyzeFood and the response.  The meal_logs revision answers
\* 500 when the insert fails; the food_analyses revision logs the error and
\* goes on to the response.
Persist(insertError) ==
    /\ ppc = "persist"
    /\ ppc' = "done"
    /\ writeDone' = IF insertError THEN "failed" ELSE "ok"
    /\ LET table == IF revision = "meal_logs" THEN "meal_logs" ELSE "food_analyses"
           id == IF revision = "meal_logs" THEN "meal-1" ELSE "analysis-1"
       IN /\ stored_rows' = IF insertError THEN stored_rows
                            ELSE Append(stored_rows, [table |-> table, id |-> id,
                                                      items |-> displayItems])
          /\ Respond(IF insertError /\ revision = "meal_logs"
                     THEN PFail(500, "DATABASE_ERROR")
                     ELSE [status |-> 200, success |-> TRUE, code |-> "", id |-> id,
                           items |-> displayItems])
    /\ lastLookup' = NoLookup
    /\ UNCHANGED <<revision, preq, timer, call, callValue, raced, detectedRaw, todo,
                   staged, displayItems, CACHE>>
    /\ UNCHANGED pothers

\* the setTimeout callback of the route-level withTimeout
RouteTimerFires ==
    /\ routeTimer = "armed"
    /\ routeTimer' = IF headersSent(sent) THEN "firedLate" ELSE "fired504"
    /\ sent' = timeoutSends(sent)
    /\ UNCHANGED <<revision, preq, ppc, timer, call, callValue, raced, detectedRaw,
                   todo, staged, displayItems, lastLookup, CACHE, writeDone,
                   stored_rows, pres>>
    /\ UNCHANGED pothers

\* 'finish' or 'close' of the response: clearTimeout
RouteTimerCleared ==
    /\ routeTimer = "armed"
    /\ headersSent(sent)
    /\ routeTimer' = "cleared"
    /\ UNCHANGED <<revision, preq, ppc, timer, call, callValue, raced, detectedRaw,
                   todo, staged, displayItems, lastLookup, CACHE, writeDone,
                   stored_rows, pres, sent>>
    /\ UNCHANGED pothers

PNext ==
    \/ \E hasImage \in BOOLEAN, imageOk \in BOOLEAN, prompt \in Prompts,
          userId \in {"u1"} : AnalyzeStart(hasImage, imageOk, prompt, userId)
    \/ \E items \in GeminiItems : ProviderResolves(items)
    \/ ProviderRejects
    \/ TimerFires
    \/ GeminiSettled
    \/ \E n \in FoodNames : CacheExpires(n)
    \/ \E o1 \in RpcOutcomes, o2 \in RpcOutcomes : ParseLookup(o1, o2)
    \/ ParseDone
    \/ \E o1 \in RpcOutcomes, o2 \in RpcOutcomes : EnrichLookup(o1, o2)
    \/ EnrichDone
    \/ \E o1 \in RpcOutcomes, o2 \in RpcOutcomes : DbLookup(o1, o2)
    \/ DbDone
    \/ \E insertError \in BOOLEAN : Persist(insertError)
    \/ RouteTimerFires
    \/ RouteTimerCleared

PIdle ==
    /\ PInit
    /\ revision = "food_analyses"

\* ---------------------------------------------------------- portion scaler
MaxGrams == 150

\* per-100 g values as the store holds them (numeric columns), in hundredths
\* of a kcal and of a gram
Per100Inputs ==
    {[calories_per_100g |-> c, protein_per_100g |-> q, carbs_per_100g |-> 2900,
      fat_per_100g |-> 50] :
        c \in {0, 301, 1701, 12950, 25000}, q \in {0, 270, 1234}}
GramsInputs == 1..MaxGrams

\* macrosFromPer100: f = grams / 100, Math.round for the calories, r1 for the
\* macros (results in kcal and in tenths of a gram)
macrosFromPer100Truncating(per100, g) ==
    [calories |-> (per100.calories_per_100g * g) \div 10000,
     protein |-> (per100.protein_per_100g * g) \div 1000,
     carbs |-> (per100.carbs_per_100g * g) \div 1000,
     fat |-> (per100.fat_per_100g * g) \div 1000]
macrosFromPer100(per100, g) ==
    [calories |-> Round(per100.calories_per_100g * g, 10000),
     protein |-> Round(per100.protein_per_100g * g, 1000),
     carbs |-> Round(per100.carbs_per_100g * g, 1000),
     fat |-> Round(per100.fat_per_100g * g, 1000)]

NoItem == [itemId |-> 0, name |-> "", estimatedGrams |-> 0, nutrition |-> NoNut,
           nutritionPer100g |-> NoNut]

\* the item enrichDetectedItemsWithDB stores: the macros of the match at the
\* item's grams
EnrichedItem(per100, g) ==
    LET mac == macrosFromPer100(per100, g)
    IN [itemId |-> 1, name |-> "rice", estimatedGrams |-> g,
        nutrition |-> Nut(mac.calories, mac.protein, mac.carbs, mac.fat, 0, 0, 0, 0),
        nutritionPer100g |-> NoNut]

SInit ==
    /\ sPer100 \in Per100Inputs
    /\ sGrams \in GramsInputs
    /\ sStored = NoItem
    /\ sBack = NoItem

\* enrichDetectedItemsWithDB computes the macros of the item and it is stored
ScaleToGrams ==
    /\ sStored = NoItem
    /\ sStored' = EnrichedItem(sPer100, sGrams)
    /\ UNCHANGED <<sPer100, sGrams, sBack>>
    /\ UNCHANGED sothers

\* saveAdjustedAnalysis with the edit { itemId, estimatedGrams: 100 }
RescaleBack ==
    /\ sStored # NoItem
    /\ sBack = NoItem
    /\ sBack' = AdjustItem([itemId |-> sStored.itemId, grams |-> 100, nutrition |-> NoNut],
                           sStored)
    /\ UNCHANGED <<sPer100, sGrams, sStored>>
    /\ UNCHANGED sothers

SNext == ScaleToGrams \/ RescaleBack

SIdle ==
    /\ sPer100 = [calories_per_100g |-> 0, protein_per_100g |-> 0,
                  carbs_per_100g |-> 2900, fat_per_100g |-> 50]
    /\ sGrams = 1
    /\ sStored = NoItem
    /\ sBack = NoItem

\* ------------------------------------------------- the numbers of an item

\* one raw item of the provider's JSON: calories in hundredths of a kcal,
\* protein in hundredths of a gram, portion_g in grams (0: absent),
\* confidence in hundredths
RawInputs ==
    {[calories |-> c, protein |-> q, portion_g |-> g, confidence |-> k] :
        c \in {-5000, 0, 20050}, q \in {-120, 0, 1234}, g \in {-20, 0, 150},
        k \in {-20, 0, 60, 150}}
\* the composition match of enrichWithIFCTData: none, or one with 130 kcal
\* and 2.7 g protein per 100 g
WireMatches ==
    {[found |-> FALSE, energy_kcal_per_100g |-> 0, protein_g_per_100g |-> 0,
      serving_size_g |-> 0],
     [found |-> TRUE, energy_kcal_per_100g |-> 130, protein_g_per_100g |-> 27,
      serving_size_g |-> 100]}
\* adjustedItems[] entries for item 1
WireEdits ==
    {[itemId |-> 1, grams |-> g, nutrition |-> n] :
        g \in {-50, 0, 200},
        n \in {NoNut, [x \in {"calories"} |-> -10]}}

NoWire == [itemId |-> 0, name |-> "", confidence |-> 0, estimatedGrams |-> 0,
           nutrition |-> NoNut, nutritionPer100g |-> NoNut]

\* clamp01 of a confidence in hundredths
clamp01h(k) == IF k > 100 THEN 100 ELSE IF k < 0 THEN 0 ELSE k
\* clamp0
clamp0(n) == IF n > 0 THEN n ELSE 0

\* normalizeItemsFromLLM, one element
normalizeItemFromLLM(raw) ==
    [itemId |-> 1, name |-> "rice",
     confidence |-> clamp01h(raw.confidence),
     estimatedGrams |-> IF raw.portion_g # 0 THEN raw.portion_g ELSE 150,
     nutrition |-> Nut(Round(raw.calories, 100), Round(raw.protein, 10), 0, 0, 0, 0, 0, 0),
     nutritionPer100g |-> NoNut]

\* enrichWithIFCTData and mapEnrichedToDetected, one element
MappedItem(base, match) ==
    LET g == npos(base.estimatedGrams, npos(match.serving_size_g, 100))
        energy_kcal_per_serving ==
            IF match.found /\ match.energy_kcal_per_100g > 0
            THEN Round(match.energy_kcal_per_100g * g, 100)
            ELSE base.nutrition["calories"]
        protein_g_per_serving ==
            IF match.found /\ match.protein_g_per_100g > 0
            THEN Round(match.protein_g_per_100g * g, 100)
            ELSE base.nutrition["protein"]
        grams == base.estimatedGrams
        nut == Nut(clamp0(energy_kcal_per_serving), protein_g_per_serving,
                   base.nutrition["carbs"], base.nutrition["fat"],
                   base.nutrition["fiber"], base.nutrition["sugar"],
                   clamp0(base.nutrition["sodium"]),
                   clamp0(base.nutrition["cholesterol"]))
    IN [itemId |-> base.itemId, name |-> base.name,
        confidence |-> clamp01h(base.confidence),
        estimatedGrams |-> grams,
        nutrition |-> nut,
        nutritionPer100g |->
            IF grams > 0
            THEN [x \in Comps |-> Round(nut[x] * 100, grams)]
            ELSE [x \in Comps |-> 0]]

WInit ==
    /\ wRaw \in RawInputs
    /\ wItem = NoWire
    /\ wShown = NoWire
    /\ wAdjusted = NoWire

\* analyzeWithGemini normalises the provider's item
NormalizeItemsFromLLM ==
    /\ wItem = NoWire
    /\ wItem' = normalizeItemFromLLM(wRaw)
    /\ UNCHANGED <<wRaw, wShown, wAdjusted>>
    /\ UNCHANGED wothers

\* analyzeFood enriches it and builds the display item, which is stored
MapEnrichedToDetected(match) ==
    /\ wItem # NoWire
    /\ wShown = NoWire
    /\ wShown' = MappedItem(wItem, match)
    /\ UNCHANGED <<wRaw, wItem, wAdjusted>>
    /\ UNCHANGED wothers

\* saveAdjustedAnalysis applies an edit to the stored item
AdjustStoredItem(a) ==
    /\ wShown # NoWire
    /\ wAdjusted = NoWire
    /\ wAdjusted' = [AdjustItem(a, wShown) EXCEPT !.name = wShown.name] @@
                        [confidence |-> wShown.confidence]
    /\ UNCHANGED <<wRaw, wItem, wShown>>
    /\ UNCHANGED wothers

WNext ==
    \/ NormalizeItemsFromLLM
    \/ \E match \in WireMatches : MapEnrichedToDetected(match)
    \/ \E a \in WireEdits : AdjustStoredItem(a)

WIdle ==
    /\ wRaw = [calories |-> 0, protein |-> 0, portion_g |-> 0, confidence |-> 0]
    /\ wItem = NoWire
    /\ wShown = NoWire
    /\ wAdjusted = NoWire

\* ------------------------------------------------- composition cache
MaxLookups == 2
MaxClock == 3

\* TTL_MS = 5 * 60 * 1000; one tick of the clock is 150 s
TTL_MS == 2

\* food names as strings of characters
LookupNames == {<<"r">>, <<" ", "R", " ">>, <<"d">>, <<>>}

\* `const key = foodName.toLowerCase().trim()`
cacheKey(foodName) == trim(toLowerCase(foodName))

CacheKeys == {cacheKey(n) : n \in LookupNames}

\* the IFCTFood | null a call gets from fetchTopFromDB(key): the table it
\* came from, its name and its serving size
Food(key, c) ==
    [from |-> c.result.from,
     name |-> IF c.result = NoMatch THEN <<>> ELSE key,
     serving_size_g |-> c.result.default_serving_g]
NullFood == [from |-> "null", name |-> <<>>, serving_size_g |-> 0]

NoEntry == [present |-> FALSE, v |-> NullFood, t |-> 0]
NoSet == [by |-> 0, at |-> 0, v |-> NullFood, t |-> 0]
NoCall ==
    [st |-> "idle", name |-> <<>>, key |-> <<>>, now |-> 0, queried |-> FALSE,
     ret |-> NullFood, seen |-> NoSet, during |-> {}]

\* `hit && now - hit.t < TTL_MS`
fresh(hit, t) == hit.present /\ t - hit.t < TTL_MS

KInit ==
    /\ clock = 0
    /\ CACHE_t = [k \in CacheKeys |-> NoEntry]
    /\ lookups = [i \in 1..MaxLookups |-> NoCall]
    /\ lastSet = [k \in CacheKeys |-> NoSet]

\* time passes
Tick ==
    /\ clock < MaxClock
    /\ clock' = clock + 1
    /\ UNCHANGED <<CACHE_t, lookups, lastSet>>
    /\ UNCHANGED kothers

\* getIFCTFoodByName up to its await: the empty name and the fresh hit
\* return at once, anything else goes to fetchTopFromDB(key)
LookupStart(i, foodName) ==
    /\ lookups[i].st = "idle"
    /\ \A j \in 1..MaxLookups : j < i => lookups[j].st # "idle"
    /\ LET key == cacheKey(foodName)
           hit == CACHE_t[key]
           base == [NoCall EXCEPT !.name = foodName, !.key = key, !.now = clock,
                      !.seen = lastSet[key],
                      !.during = {j \in 1..MaxLookups :
                                     lookups[j].st = "fetching" /\ lookups[j].key = key}]
       IN lookups' = [lookups EXCEPT ![i] =
            IF foodName = <<>>
            THEN [base EXCEPT !.st = "done", !.ret = NullFood]
            ELSE IF fresh(hit, clock)
            THEN [base EXCEPT !.st = "done", !.ret = hit.v]
            ELSE [base EXCEPT !.st = "fetching", !.queried = TRUE]]
    /\ UNCHANGED <<clock, CACHE_t, lastSet>>
    /\ UNCHANGED kothers

\* fetchTopFromDB answers: `CACHE.set(key, { v, t: now })` with the now of
\* the start of the call, and the return
LookupSettles(i, o1, o2) ==
    /\ lookups[i].st = "fetching"
    /\ LET key == lookups[i].key
           v == Food(key, fetchTopFromDB("", o1, o2))
       IN /\ CACHE_t' = [CACHE_t EXCEPT ![key] =
                            [present |-> TRUE, v |-> v, t |-> lookups[i].now]]
          /\ lastSet' = [lastSet EXCEPT ![key] =
                            [by |-> i, at |-> clock, v |-> v, t |-> lookups[i].now]]
          /\ lookups' = [lookups EXCEPT ![i].st = "done", ![i].ret = v]
    /\ UNCHANGED clock
    /\ UNCHANGED kothers

KNext ==
    \/ Tick
    \/ \E i \in 1..MaxLookups, n \in LookupNames : LookupStart(i, n)
    \/ \E i \in 1..MaxLookups, o1 \in RpcOutcomes, o2 \in RpcOutcomes : LookupSettles(i, o1, o2)

KIdle == KInit

\* ------------------------------------------------- serving overrides
MaxServings == 2

\* String.prototype.includes
includes(str, sub) ==
    \E i \in 0..(Len(str) - Len(sub)) : SubSeq(str, i + 1, i + Len(sub)) = sub

\* rows of user_servings (label NOT NULL, grams NOT NULL); an id 0 stands
\* for a NULL ingredient_id or recipe_id
ServingRows ==
    {[user_id |-> "u1", ingredient_id |-> 1, recipe_id |-> 0, label |-> <<"K">>, grams |-> 250],
     [user_id |-> "u1", ingredient_id |-> 1, recipe_id |-> 0, label |-> <<"d">>, grams |-> 120],
     [user_id |-> "u1", ingredient_id |-> 1, recipe_id |-> 0, label |-> <<"c">>, grams |-> 300],
     [user_id |-> "u1", ingredient_id |-> 1, recipe_id |-> 0, label |-> <<"k", "d">>, grams |-> 0],
     [user_id |-> "u1", ingredient_id |-> 1, recipe_id |-> 0, label |-> <<>>, grams |-> 50],
     [user_id |-> "u1", ingredient_id |-> 0, recipe_id |-> 1, label |-> <<"k">>, grams |-> 90],
     [user_id |-> "u2", ingredient_id |-> 1, recipe_id |-> 0, label |-> <<"k">>, grams |-> 400]}
ServingTables == {t \in SUBSET ServingRows : Cardinality(t) <= MaxServings}

\* the items: name and portionSize.estimatedGrams (0: absent)
ServingItems ==
    {[name |-> n, estimatedGrams |-> g] :
        n \in {<<"k", "d">>, <<" ", "D">>, <<>>}, g \in {-10, 0, 150}}

\* the pick of personal_food_lookup or of ingredient_lookup
\* (default_serving_g 0: null); per-100 g values in hundredths
NoPick == [kind |-> "none", id |-> 0, name |-> <<>>, default_serving_g |-> 0]
Picks ==
    {[kind |-> k, id |-> 1, name |-> <<"d", "a", "l">>, default_serving_g |-> d] :
        k \in {"ingredient", "recipe"}, d \in {0, 180}}
PickPer100 ==
    [calories_per_100g |-> 12950, protein_per_100g |-> 270, carbs_per_100g |-> 2900,
     fat_per_100g |-> 50]

\* the select on user_servings: .eq('user_id', userId).eq(col, pick.id)
selectUserServings(userId, pick) ==
    {r \in user_servings :
        /\ r.user_id = userId
        /\ IF pick.kind = "ingredient" THEN r.ingredient_id = pick.id
           ELSE r.recipe_id = pick.id}

\* .order('grams', { ascending: false }): the orders the store may give
OrderedByGramsDesc(rows) ==
    {l \in [1..Cardinality(rows) -> rows] :
        \A i, j \in 1..Cardinality(rows) :
            i < j => (l[i] # l[j] /\ l[i].grams >= l[j].grams)}

\* userServings.find((s) => termLower.includes(String(s.label || '').toLowerCase())) || null
NoServing == [found |-> FALSE, label |-> <<>>, grams |-> 0]
findLast(list, termLower) ==
    LET hits == {i \in 1..Len(list) : includes(termLower, toLowerCase(list[i].label))}
    IN IF hits = {} THEN NoServing
       ELSE LET i == CHOOSE x \in hits : \A y \in hits : x >= y
            IN [found |-> TRUE, label |-> list[i].label, grams |-> list[i].grams]
find(list, termLower) ==
    LET hits == {i \in 1..Len(list) : includes(termLower, toLowerCase(list[i].label))}
    IN IF hits = {} THEN NoServing
       ELSE LET i == CHOOSE x \in hits : \A y \in hits : x <= y
            IN [found |-> TRUE, label |-> list[i].label, grams |-> list[i].grams]

\* npos(matchServing?.grams) || npos(item?.portionSize?.estimatedGrams) ||
\* npos(pick.default_serving_g) || 100
chooseGramsEstimateFirst(matchServing, item, pick) ==
    npos(item.estimatedGrams, npos(matchServing.grams, npos(pick.default_serving_g, 100)))
chooseGrams(matchServing, item, pick) ==
    npos(matchServing.grams, npos(item.estimatedGrams, npos(pick.default_serving_g, 100)))

NotEnriched ==
    [returned |-> FALSE, matched |-> FALSE, name |-> <<>>, estimatedGrams |-> 0,
     nutrition |-> macrosFromPer100(PickPer100, 0), appliedServingLabel |-> NoServing]

GInit ==
    /\ user_servings \in ServingTables
    /\ gItem \in ServingItems
    /\ gUserId \in {NULL, "u1"}
    /\ gPick \in Picks \cup {NoPick}
    /\ userServings = <<>>
    /\ gOut = NotEnriched

\* the body of items.map for one item, from `if (!pick) return item` on
EnrichItemWithDB(answer, list) ==
    /\ ~gOut.returned
    /\ LET term == trim(gItem.name)
           unchanged == [NotEnriched EXCEPT !.returned = TRUE, !.name = gItem.name,
                           !.estimatedGrams = gItem.estimatedGrams]
       IN IF term = <<>> \/ gPick = NoPick
          THEN /\ gOut' = unchanged
               /\ UNCHANGED userServings
               /\ answer = "ok" /\ list = <<>>
          ELSE /\ list \in OrderedByGramsDesc(selectUserServings(gUserId, gPick))
               /\ userServings' = IF gUserId # NULL /\ answer = "ok" THEN list ELSE <<>>
               /\ (gUserId = NULL => answer = "ok")
               /\ LET matchServing == find(userServings', toLowerCase(term))
                      grams == chooseGrams(matchServing, gItem, gPick)
                  IN gOut' = [returned |-> TRUE, matched |-> TRUE,
                              name |-> IF gPick.name # <<>> THEN gPick.name ELSE gItem.name,
                              estimatedGrams |-> grams,
                              nutrition |-> macrosFromPer100(PickPer100, grams),
                              appliedServingLabel |-> matchServing]
    /\ UNCHANGED <<user_servings, gItem, gUserId, gPick>>
    /\ UNCHANGED gothers

ServingLists == UNION {OrderedByGramsDesc(t) : t \in ServingTables}

GNext ==
    \E answer \in {"ok", "error", "throw"}, list \in ServingLists :
        EnrichItemWithDB(answer, list)

GIdle ==
    /\ user_servings = {}
    /\ gItem = [name |-> <<>>, estimatedGrams |-> 0]
    /\ gUserId = NULL
    /\ gPick = NoPick
    /\ userServings = <<>>
    /\ gOut = NotEnriched

\* ---------------------------------------------------------- specifications
\* the feedback behaviours leave the analysis row alone, and conversely
AIdle ==
    /\ food_analyses = NoRow
    /\ persisted = NoRow
    /\ areq = NoReq
    /\ ares = NoRes
    /\ now = 0

XIdle == CIdle /\ PIdle /\ SIdle /\ WIdle /\ KIdle /\ GIdle

InitFeedback == FInit /\ AIdle /\ XIdle

SpecFeedback == InitFeedback /\ [][FNext]_vars

\* a step of the critical section of c: the store answers a call of fn()
CriticalSectionStep(c) ==
    \/ PreCheck(c)
    \/ PreCheckError(c)
    \/ Insert(c)
    \/ \E code \in {"23503", "other"} : InsertError(c, code)
    \/ Flag(c)
    \/ Throw(c)

\* the requests of the behaviours checked for progress
MaxLiveCallers == 2
LiveCallers == 1..MaxLiveCallers

FNextLive ==
    \/ \E c \in LiveCallers, p \in Procs, a \in AnalysisIds, u \in UserIds : Submit(c, p, a, u)
    \/ \E c \in LiveCallers : Enter(c)
    \/ \E c \in LiveCallers : PreCheck(c)
    \/ \E c \in LiveCallers : PreCheckError(c)
    \/ \E c \in LiveCallers : Insert(c)
    \/ \E c \in LiveCallers, code \in {"23503", "other"} : InsertError(c, code)
    \/ \E c \in LiveCallers : Flag(c)
    \/ \E c \in LiveCallers : Throw(c)
    \/ \E c \in LiveCallers : Release(c)

\* the event loop runs every continuation that is ready (`await prev`, the
\* finally block), and every store call of a critical section is answered
SpecFeedbackLive ==
    /\ InitFeedback
    /\ [][FNextLive]_vars
    /\ \A c \in LiveCallers :
        /\ WF_vars(Enter(c))
        /\ WF_vars(CriticalSectionStep(c))
        /\ WF_vars(Release(c))

FIdle ==
    /\ FInit
    /\ IN_JEST = FALSE

InitAdjust == FIdle /\ AInit /\ XIdle

InitCombine == FIdle /\ AIdle /\ CInit /\ PIdle /\ SIdle /\ WIdle /\ KIdle /\ GIdle

SpecCombine == InitCombine /\ [][CNext]_vars

InitAnalyze == FIdle /\ AIdle /\ CIdle /\ PInit /\ SIdle /\ WIdle /\ KIdle /\ GIdle

SpecAnalyze == InitAnalyze /\ [][PNext]_vars

InitScale == FIdle /\ AIdle /\ CIdle /\ PIdle /\ SInit /\ WIdle /\ KIdle /\ GIdle

InitWire == FIdle /\ AIdle /\ CIdle /\ PIdle /\ SIdle /\ WInit /\ KIdle /\ GIdle

SpecWire == InitWire /\ [][WNext]_vars

SpecScale == InitScale /\ [][SNext]_vars

InitCache == FIdle /\ AIdle /\ CIdle /\ PIdle /\ SIdle /\ WIdle /\ KInit /\ GIdle

SpecCache == InitCache /\ [][KNext]_vars

InitServing == FIdle /\ AIdle /\ CIdle /\ PIdle /\ SIdle /\ WIdle /\ KIdle /\ GInit

SpecServing == InitServing /\ [][GNext]_vars

SpecAdjust == InitAdjust /\ [][ANext]_vars

\* ---------------------------------------------------- adjustment: claims

Responded200 == ares.status = 200
StoredItems == persisted.detected_items
StoredIds == {StoredItems[i].itemId : i \in 1..Len(StoredItems)}
StoredItem(id) == CHOOSE it \in {StoredItems[i] : i \in 1..Len(StoredItems)} : it.itemId = id
IsKnownEdit(e) == e.itemId \in StoredIds
IsUnknownEdit(e) == e.itemId \notin StoredIds
EditedIds(adjusted) == {adjusted[j].itemId : j \in 1..Len(adjusted)}
Max(a, b) == IF a >= b THEN a ELSE b

\* C6: after a successful adjustment every stored item that no edit
\* references is still in the persisted adjustedItems, with its stored
\* grams and nutrition, and the adjusted summary counts it.
C6_UneditedItemsKept ==
    Responded200 =>
        \A i \in 1..Len(StoredItems) :
            StoredItems[i].itemId \notin EditedIds(areq.adjustedItems) =>
                /\ \E k \in 1..Len(food_analyses.adjusted_items) :
                    /\ food_analyses.adjusted_items[k].itemId = StoredItems[i].itemId
                    /\ food_analyses.adjusted_items[k].estimatedGrams = StoredItems[i].estimatedGrams
                    /\ food_analyses.adjusted_items[k].nutrition = StoredItems[i].nutrition
                /\ food_analyses.adjusted_nutrition_summary.total_calories
                        >= StoredItems[i].nutrition["calories"]

\* C7: saveAdjustedAnalysis never changes detected_items, the original
\* nutrition summary or any other original column of the row: only
\* adjusted_items, adjusted_nutrition_summary, feedback_received, adjusted_by
\* and adjusted_at differ from what the analysis persisted.
C7_OriginalUntouched ==
    /\ food_analyses.exists = persisted.exists
    /\ food_analyses.exists =>
        \A f \in DOMAIN persisted :
            f \notin {"adjusted_items", "adjusted_nutrition_summary",
                      "feedback_received", "adjusted_by", "adjusted_at"}
                => food_analyses[f] = persisted[f]

C7_Witness ==
    /\ now = 2
    /\ food_analyses.exists
    /\ food_analyses.adjusted_at = 2
    /\ food_analyses.feedback_received
    /\ food_analyses.adjusted_items # <<>>
    /\ food_analyses.adjusted_items # food_analyses.detected_items

\* the request handled by this step reached the payload checks
C8_Checked == ares'.code \notin {"BAD_ID", "NOT_FOUND"}
C8_Step ==
    now' = now + 1 =>
        LET adjusted == areq'.adjustedItems
            known == SelectSeq(adjusted, IsKnownEdit)
            unknown == SelectSeq(adjusted, IsUnknownEdit)
        IN IF known = <<>>
           THEN /\ food_analyses' = food_analyses
                /\ ares'.status # 200
                /\ C8_Checked => ares'.status = 400 /\ ares'.code = "BAD_PAYLOAD"
           ELSE /\ ares'.status # 400
                /\ ares'.status # 200 => food_analyses' = food_analyses
                /\ ares'.status = 200 =>
                    /\ food_analyses'.adjusted_items = ares'.adjustedItems
                    /\ Len(ares'.adjustedItems) = Len(known)
                    /\ \A i \in 1..Len(known) :
                        /\ ares'.adjustedItems[i].itemId = known[i].itemId
                        /\ known[i].grams # 0 =>
                            ares'.adjustedItems[i].estimatedGrams = known[i].grams
                    /\ ares'.ignoredItemIds = [i \in 1..Len(unknown) |-> unknown[i].itemId]

\* C8: a request mixing known and unknown itemIds applies and persists
\* exactly the edits with known itemIds, in order, and returns every unknown
\* itemId in ignoredItemIds; a request whose edits are all unknown, or that
\* has no edit, is answered 400 BAD_PAYLOAD and writes nothing.
C8_PartialSuccess == [][C8_Step]_vars

\* a mixed request was applied
C8_Witness ==
    /\ Responded200
    /\ Len(ares.adjustedItems) = 1
    /\ Len(ares.ignoredItemIds) = 1
    /\ Len(areq.adjustedItems) = 2

\* C9: the adjusted nutrition of an edited item is the stored nutrition
\* times newGrams / max(oldGrams, 1), rounded, whatever nutrition the edit
\* payload carries.
C9_ScalesStoredNutrition ==
    Responded200 =>
        LET known == SelectSeq(areq.adjustedItems, IsKnownEdit)
        IN \A i \in 1..Len(known) :
            LET base == StoredItem(known[i].itemId)
                oldGrams == IF base.estimatedGrams = 0 THEN 100 ELSE base.estimatedGrams
                newGrams == IF known[i].grams = 0 THEN oldGrams ELSE known[i].grams
            IN \A x \in Comps :
                ares.adjustedItems[i].nutrition[x]
                    = Round(base.nutrition[x] * newGrams, Max(oldGrams, 1))

\* what an add-on is worth: its explicit macros when it has any, else the
\* preset rate times its grams
C10_AddOnMacros(x) ==
    IF x.calories > 0 \/ x.protein > 0 \/ x.carbs > 0 \/ x.fat > 0
    THEN [calories |-> x.calories, protein |-> x.protein, carbs |-> x.carbs, fat |-> x.fat]
    ELSE InferAddOnFromPreset(x.name, x.grams)

\* C10: a grams-only add-on with a preset name adds preset_rate x grams to
\* the adjusted totals; rice of 200 kcal / 0.5 g fat at 150 g scaled to
\* 200 g plus 10 g of ghee totals more than 330 kcal and more than 10 g fat.
C10_PresetAddOnCounted ==
    Responded200 =>
        /\ ares.nutritionSummary =
                SumAddOns([j \in 1..Len(areq.ingredientAddOns) |->
                                C10_AddOnMacros(areq.ingredientAddOns[j])],
                          SumItems(ares.adjustedItems, ZeroTotals))
        /\ (/\ StoredItems = <<Rice>>
            /\ areq.adjustedItems = <<[itemId |-> 1, grams |-> 200, nutrition |-> NoNut]>>
            /\ Len(areq.ingredientAddOns) = 1
            /\ areq.ingredientAddOns[1].name = "ghee"
            /\ areq.ingredientAddOns[1].grams = 10)
           => /\ ares.nutritionSummary.total_calories > 330
              /\ ares.nutritionSummary.total_fat > 100

\* ------------------------------------------------------ feedback: claims

Called(c) == pc[c] # "idle" /\ uuidValidate(reqAid[c])
InCS(c) == pc[c] \in {"precheck", "insert", "flag", "exit"}
SamePair(c, d) == reqAid[c] = reqAid[d] /\ reqUid[c] = reqUid[d]
\* callers of process p that submitted the pair k
Group(p, k) == {c \in Callers : Called(c) /\ proc[c] = p /\ <<reqAid[c], reqUid[c]>> = k}
WithStatus(S, st) == {c \in S : status[c] = st}
\* d called withKeyLock before c, same process and same pair
Earlier(d, c) == d < c /\ Called(d) /\ Called(c) /\ proc[d] = proc[c] /\ SamePair(c, d)
IsPrefix(s, t) == Len(s) <= Len(t) /\ \A i \in 1..Len(s) : s[i] = t[i]

\* the group of p for pair k is complete: N >= 2 calls, all answered, every
\* store call answered without a fault, and no other process took the pair
Settled(p, k) ==
    /\ Cardinality(Group(p, k)) >= 2
    /\ \A c \in Group(p, k) : pc[c] = "done" /\ fault[c] = "none"
    /\ \A q \in Procs : q # p => Group(q, k) = {}

\* C1: N >= 2 submitFeedback calls of one process with the same
\* (analysisId, userId) and no earlier feedback: once all have answered,
\* exactly one answered 201 and the other N-1 answered 409, whatever the
\* interleaving (the store answering every call).
C1_OneSuccessRestConflict ==
    \A p \in Procs, k \in Pairs :
        Settled(p, k) =>
            /\ Cardinality(WithStatus(Group(p, k), 201)) = 1
            /\ Cardinality(WithStatus(Group(p, k), 409)) = Cardinality(Group(p, k)) - 1

C1_Witness ==
    \E p \in Procs, k \in Pairs :
        /\ Settled(p, k)
        /\ Cardinality(Group(p, k)) >= 3
        /\ ~IN_JEST

\* C2: the feedback table holds at most one row per (analysisId, userId),
\* whichever processes handled the submissions.
C2_AtMostOneRowPerPair ==
    \A i, j \in 1..Len(analysis_feedback) :
        (/\ analysis_feedback[i].analysis_id = analysis_feedback[j].analysis_id
         /\ analysis_feedback[i].user_id = analysis_feedback[j].user_id) => i = j

\* C3: per process and key at most one critical section executes at a time,
\* and a critical section has started only if the critical section of every
\* caller that enqueued earlier on the key has finished.
C3_MutualExclusion ==
    /\ \A c, d \in Callers :
        (c # d /\ InCS(c) /\ InCS(d) /\ proc[c] = proc[d]) => ~SamePair(c, d)
    /\ \A c, d \in Callers :
        (Earlier(d, c) /\ (InCS(c) \/ pc[c] = "done")) => pc[d] = "done"

C3_Witness ==
    \E c, d \in Callers :
        /\ Earlier(d, c)
        /\ pc[c] = "waiting"
        /\ prevOf[c] = d
        /\ InCS(d)

\* C4: callers with the same key enter their critical sections in the order
\* in which they called withKeyLock.
C4_FIFO ==
    \A p \in Procs, k \in Pairs : IsPrefix(enterOrder[p][k], callOrder[p][k])

C4_Witness ==
    \E p \in Procs, k \in Pairs :
        /\ Len(callOrder[p][k]) >= 3
        /\ Len(enterOrder[p][k]) >= 3

\* C5: a caller whose earlier callers on the same key have all finished is
\* free to enter its critical section, whatever callers of other keys are
\* doing.
C5_KeysIndependent ==
    \A c \in Callers :
        (pc[c] = "waiting" /\ \A d \in Callers : Earlier(d, c) => pc[d] = "done")
            => PrevResolved(c)

\* a caller on key A is free to enter while, in the same process, key B is
\* held by one caller and awaited by another
C5_Witness ==
    \E c, d, e \in Callers :
        /\ pc[c] = "waiting" /\ PrevResolved(c)
        /\ proc[d] = proc[c] /\ ~SamePair(c, d) /\ InCS(d)
        /\ Earlier(d, e) /\ pc[e] = "waiting"

\* caller c is inside withKeyLock: awaiting prev, or in fn(), or about to
\* run the finally block
InQueue(c) == Called(c) /\ (pc[c] = "waiting" \/ InCS(c))
KeyOf(c) == LockKey(reqAid[c], reqUid[c])

\* C21: a key that no caller holds or waits on has no entry in keyLocks; as
\* long as some caller holds or waits on it the entry is there and is the
\* chain of the last caller of the queue (callers are numbered in the order
\* of their calls), so the release that deletes it is the last caller's and
\* an earlier caller's release leaves it in place.
C21_LockBookkeeping ==
    /\ \A c \in Callers :
          InQueue(c) => keyLocks[proc[c]][KeyOf(c)] >= c
    /\ \A p \in Procs, key \in LockKeys :
          keyLocks[p][key] # 0 =>
              LET last == keyLocks[p][key]
              IN InQueue(last) /\ proc[last] = p /\ KeyOf(last) = key

\* in one process an earlier caller of key A has released while a later one
\* is still queued (entry kept), and key B was used and its entry is gone
C21_Witness ==
    \E c, d, e \in Callers :
        /\ Earlier(d, c) /\ pc[d] = "done" /\ pc[c] = "waiting"
        /\ keyLocks[proc[c]][LockKey(reqAid[c], reqUid[c])] = c
        /\ proc[e] = proc[c] /\ ~SamePair(e, c) /\ Called(e) /\ pc[e] = "done"
        /\ keyLocks[proc[e]][LockKey(reqAid[e], reqUid[e])] = 0

Entered(c) == InCS(c) \/ (pc[c] = "done" /\ Called(c))
Failed(c) == fault[c] = "throw"

\* C22: a critical section that throws still releases the lock: the 500 of
\* the failure goes to the caller whose critical section failed and to no
\* caller whose own store calls were answered without an error, and every
\* caller waiting on a key eventually enters its critical section, the ones
\* queued behind a failed caller included.
C22_ReleasedOnThrow ==
    /\ [](\A c \in Callers : status[c] = 500 => fault[c] \in {"throw", "other"})
    /\ \A c \in LiveCallers : (pc[c] = "waiting") ~> Entered(c)

\* a caller queued behind a caller whose critical section threw has entered
\* its own critical section and was answered 201 or 409
C22_Witness ==
    \E c, d \in Callers :
        /\ Earlier(d, c) /\ prevOf[c] = d
        /\ Failed(d) /\ pc[d] = "done" /\ status[d] = 500
        /\ pc[c] = "done" /\ status[c] \in {201, 409}

\* ------------------------------------------------------- combiner: claims

Combined == combined # NotCombined
\* the groups of the call, in first-seen order
GroupsOf(sets) ==
    LET flat == Flatten(sets)
        keys == KeysInOrder(flat, {})
    IN [g \in 1..Len(keys) |-> GroupOf(flat, keys[g])]
RECURSIVE SumConfidence(_)
\* the plain sum of the members' confidences, in hundredths
SumConfidence(group) ==
    IF group = <<>> THEN 0
    ELSE Head(group).confidence.num + SumConfidence(Tail(group))
TwoSetsExample ==
    <<[provider |-> "gemini",
       detectedItems |-> <<[itemId |-> 1, name |-> <<"r">>, confidence |-> Conf(60)]>>,
       confidence |-> Conf(90), processingTimeMs |-> 12],
      [provider |-> "vision",
       detectedItems |-> <<[itemId |-> 1, name |-> <<"r">>, confidence |-> Conf(80)]>>,
       confidence |-> Conf(90), processingTimeMs |-> 12]>>

\* C15: with two or more result sets, every merged item's confidence is the
\* arithmetic mean of the confidences of all members of its group (member
\* confidences lie in [0,1], 0 included, so the clamp leaves the mean as it
\* is); the sets holding itemId 1 with 0.6 and with 0.8 give one merged item
\* with confidence 0.7.
C15_MeanConfidence ==
    (Combined /\ Len(analyses) >= 2) =>
        LET groups == GroupsOf(analyses)
        IN /\ Len(combined.detectedItems) = Len(groups)
           /\ \A g \in 1..Len(groups) :
                combined.detectedItems[g].confidence.num * Len(groups[g])
                    = SumConfidence(groups[g]) * combined.detectedItems[g].confidence.den
           /\ analyses = TwoSetsExample =>
                /\ Len(combined.detectedItems) = 1
                /\ combined.detectedItems[1].confidence.num
                      = 70 * combined.detectedItems[1].confidence.den

\* C16: with zero result sets the combiner returns an empty item list with
\* confidence 0.5; with exactly one result set it returns that set unchanged
\* (same items, same order, same confidence).
C16_ZeroOrOneSet ==
    Combined =>
        /\ Len(analyses) = 0 =>
              /\ combined.detectedItems = <<>>
              /\ combined.confidence = Conf(50)
        /\ Len(analyses) = 1 =>
              /\ combined.detectedItems = analyses[1].detectedItems
              /\ combined.confidence = analyses[1].confidence
              /\ combined = analyses[1]
\* one set whose item and overall confidence are both 0 came back
C16_Witness ==
    /\ Combined
    /\ Len(analyses) = 1
    /\ Len(analyses[1].detectedItems) = 1
    /\ analyses[1].detectedItems[1].confidence = Conf(0)
    /\ analyses[1].confidence = Conf(0)
    /\ combined = analyses[1]

\* ------------------------------------------------------- analysis: claims

PDone == ppc = "done"
\* the items the request holds anywhere
HeldItems(raw, disp, res) ==
    {raw[i] : i \in 1..Len(raw)} \cup {disp[i] : i \in 1..Len(disp)}
        \cup {res.items[i] : i \in 1..Len(res.items)}
ValidInput ==
    /\ preq.hasImage \/ preq.prompt # <<>>
    /\ preq.hasImage => preq.imageOk

\* C11: when the final insert of analyzeFood fails, the response is an error,
\* never a success carrying the computed items and a record id.
C11_WriteFailureIsAnError ==
    (PDone /\ writeDone = "failed") =>
        /\ ~pres.success
        /\ pres.status >= 400
        /\ pres.id = ""

\* C12: when the deadline fires before the provider call completes, the
\* call is left running (it is not aborted), the analysis goes on with an
\* empty detection list, and whatever the call delivers later never becomes
\* one of the request's items.
C12_Step ==
    /\ (timer = "armed" /\ timer' = "fired") =>
            /\ call = "running"
            /\ call' = call
    /\ (timer = "fired" /\ ppc = "provider" /\ ppc' # "provider") =>
            /\ detectedRaw' = <<>>
            /\ ppc' \in {"parse", "enrich"}
    /\ timer' = "fired" =>
            \A it \in HeldItems(detectedRaw', displayItems', pres') : it.source # "ai"
C12_DeadlineRace == [][C12_Step]_vars
\* the provider delivered items after the deadline and the request was
\* answered without them
C12_Witness ==
    /\ PDone
    /\ timer = "fired"
    /\ call = "resolved"
    /\ callValue # <<>>
    /\ pres.status = 200
    /\ pres.items = <<>>

\* C13: every lookup that goes to the store queries personal_food_lookup
\* first and ingredient_lookup only when the first gave no candidate, and
\* its match comes from the first strategy that gave one.
C13_PersonalFirst ==
    lastLookup # NoLookup =>
        /\ lastLookup.queried[1] = "personal_food_lookup"
        /\ Len(lastLookup.queried) = 2 =>
              /\ lastLookup.queried[2] = "ingredient_lookup"
              /\ lastLookup.answers[1] # "hit"
        /\ lastLookup.answers[1] = "hit" =>
              lastLookup.result.from = "personal_food_lookup"
        /\ (lastLookup.answers[1] # "hit" /\ lastLookup.result \notin {NoMatch, Thrown}) =>
              lastLookup.result.from = "ingredient_lookup"

\* C14: a lookup never throws: when the store call of the first strategy
\* fails the second is tried, and when neither gives a candidate the result
\* is null and the item goes on unresolved.
C14_LookupNeverThrows ==
    /\ pres.code # "INTERNAL_ERROR"
    /\ lastLookup # NoLookup =>
        /\ lastLookup.result # Thrown
        /\ lastLookup.answers[1] # "hit" => Len(lastLookup.queried) = 2
        /\ (\A k \in 1..Len(lastLookup.answers) : lastLookup.answers[k] # "hit")
              => lastLookup.result = NoMatch
        /\ (lastLookup.result = NoMatch /\ lastLookup.by = "enrichDetectedItemsWithDB") =>
              /\ staged # <<>>
              /\ staged[Len(staged)] = displayItems[Len(staged)]
        /\ (lastLookup.result = NoMatch /\ ppc = "parse") =>
              \E i \in 1..Len(staged) :
                  /\ staged[i].name = lastLookup.name
                  /\ staged[i].confidence = 50
                  /\ staged[i].calories = 0
\* both store calls of a lookup were rejected and the item went on as it was
C14_Witness ==
    /\ lastLookup.by = "enrichDetectedItemsWithDB"
    /\ lastLookup.answers = <<"throw", "throw">>
    /\ lastLookup.result = NoMatch
    /\ staged # <<>>
    /\ staged[Len(staged)] = displayItems[Len(staged)]

\* C20: a request with valid input whose final insert succeeds is answered
\* with a result whatever the provider and the lookups did: when the
\* provider failed and there is a prompt the items are those parsed from the
\* prompt, and every detected item is in the result, enriched or not.
C20_AlwaysSomeResult ==
    (PDone /\ ValidInput /\ writeDone # "failed") =>
        /\ pres.status = 200
        /\ pres.success
        /\ Len(pres.items) = Len(detectedRaw)
        /\ \A i \in 1..Len(detectedRaw) :
              /\ pres.items[i].itemId = detectedRaw[i].itemId
              /\ pres.items[i].source = detectedRaw[i].source
        /\ (raced = "error" /\ preq.prompt # <<>>) =>
              /\ Len(pres.items) = Len(preq.prompt)
              /\ \A i \in 1..Len(pres.items) : pres.items[i].source = "text"
\* the provider call was rejected, the prompt was parsed instead, every
\* lookup failed, and the request was answered with the parsed item
C20_Witness ==
    /\ PDone
    /\ preq.hasImage
    /\ call = "rejected"
    /\ raced = "error"
    /\ preq.prompt # <<>>
    /\ pres.status = 200
    /\ pres.items # <<>>
    /\ \A i \in 1..Len(pres.items) :
          pres.items[i].source = "text" /\ pres.items[i].dbMatch = "null"
                /\ pres.items[i].confidence = 50

\* ---------------------------------------------- adjustment: further claims

\* the edits of the last request that reference a stored item, in order:
\* the i-th of them made the i-th adjusted item
KnownEdits == FilterSeq(areq.adjustedItems, StoredIds)
\* the edit leaves the portion as it is stored: no grams, or the stored grams
IsNoOpEdit(e) ==
    \/ e.grams = 0
    \/ e.grams = StoredItem(e.itemId).estimatedGrams

\* C17: an edit that sets a stored item to its own current grams, or that
\* carries no grams, leaves every nutrition component of the item equal to
\* its stored value.
C17_NoOpEditKeepsNutrition ==
    Responded200 =>
        \A i \in 1..Len(KnownEdits) :
            IsNoOpEdit(KnownEdits[i]) =>
                \A x \in Comps :
                    ares.adjustedItems[i].nutrition[x]
                        = StoredItem(KnownEdits[i].itemId).nutrition[x]
\* the same, for the edits that carry grams only
C17_GramsOnly ==
    Responded200 =>
        \A i \in 1..Len(KnownEdits) :
            (IsNoOpEdit(KnownEdits[i]) /\ KnownEdits[i].nutrition = NoNut) =>
                \A x \in Comps :
                    ares.adjustedItems[i].nutrition[x]
                        = StoredItem(KnownEdits[i].itemId).nutrition[x]

\* ---------------------------------------------------- portion scaler: claims

Abs(x) == IF x >= 0 THEN x ELSE -x
\* the value at 100 g is within 1 kcal, or within 0.1 g, of the per-100 g value
WithinTolerance ==
    /\ Abs(100 * sBack.nutrition["calories"] - sPer100.calories_per_100g) <= 100
    /\ Abs(10 * sBack.nutrition["protein"] - sPer100.protein_per_100g) <= 10
    /\ Abs(10 * sBack.nutrition["carbs"] - sPer100.carbs_per_100g) <= 10
    /\ Abs(10 * sBack.nutrition["fat"] - sPer100.fat_per_100g) <= 10

\* C18 as stated: for any per-100 g macros and any positive grams, scaling
\* to the grams, storing the rounded result and rescaling it back to 100 g
\* gives the per-100 g values within 1 kcal and 0.1 g.
C18_RoundTrip ==
    sBack # NoItem => WithinTolerance

\* C18 amended: the same for portions of at least 100 g.
C18_RoundTripFrom100g ==
    (sBack # NoItem /\ sGrams >= 100) => WithinTolerance
\* 17.01 kcal per 100 g went to 150 g and came back as 17 kcal
C18_Witness ==
    /\ sBack # NoItem
    /\ sGrams = 150
    /\ sPer100.calories_per_100g = 1701
    /\ sStored.nutrition["calories"] = 26
    /\ sBack.nutrition["calories"] = 17

\* ------------------------------------------------- numbers of an item: claims

\* the wire-level numeric contract for one item
WireContract(it) ==
    /\ \A x \in Comps : it.nutrition[x] >= 0
    /\ it.estimatedGrams > 0
    /\ it.confidence >= 0
    /\ it.confidence <= 100

\* C19: every item normalizeItemsFromLLM, mapEnrichedToDetected and the
\* adjustment produce has non-negative nutrition (calories, sodium and
\* cholesterol whole numbers), positive estimatedGrams and a confidence
\* within [0,1], whatever the provider sent and whatever the edit carries.
C19_WireContract ==
    \A it \in {wItem, wShown, wAdjusted} \ {NoWire} : WireContract(it)

\* ------------------------------------------------- route deadline: claims

\* a step of analyzeFood or of the provider call and its deadline
PipelineStep ==
    \/ ProviderRejects
    \/ TimerFires
    \/ GeminiSettled
    \/ ParseDone
    \/ EnrichDone
    \/ DbDone
    \/ \E insertError \in BOOLEAN : Persist(insertError)
    \/ \E o1 \in RpcOutcomes, o2 \in RpcOutcomes : ParseLookup(o1, o2)
    \/ \E o1 \in RpcOutcomes, o2 \in RpcOutcomes : EnrichLookup(o1, o2)
    \/ \E o1 \in RpcOutcomes, o2 \in RpcOutcomes : DbLookup(o1, o2)
    \/ \E items \in GeminiItems : ProviderResolves(items)

\* C23: the client gets at most one response.  When the route deadline fired
\* before the handler responded that response is the 504 TIMEOUT, the
\* pipeline can still take every step up to its end, it has issued its
\* persistence write when it is through (unless the handler itself failed
\* before), and what the handler then hands to res.json is not delivered.
\* When the deadline fires after the handler responded it sends nothing.
C23_RouteDeadline ==
    /\ Len(sent) <= 1
    /\ routeTimer = "fired504" =>
          /\ sent = <<Timeout504>>
          /\ ppc # "done" => ENABLED PipelineStep
          /\ ppc = "done" => (writeDone # "none" \/ pres = PFail(500, "INTERNAL_ERROR"))
    /\ routeTimer = "firedLate" => sent = <<pres>>

\* the deadline fired during the pipeline, the pipeline went on, wrote its
\* row and handed a 200 to res.json; the client has the 504 only
C23_Witness ==
    /\ routeTimer = "fired504"
    /\ ppc = "done"
    /\ writeDone = "ok"
    /\ stored_rows # <<>>
    /\ pres.status = 200
    /\ sent = <<Timeout504>>

\* ------------------------------------------------ composition cache: claims

Started(i) == lookups[i].st # "idle" /\ lookups[i].name # <<>>

\* C24: a call that starts less than TTL_MS after the cache was populated
\* for its key returns the value the cache was populated with and does not
\* query the store, whatever the case and the blanks of its name; a call
\* that starts TTL_MS or more after it queries the store.
C24_CacheWindow ==
    \A i \in 1..MaxLookups :
        (Started(i) /\ lookups[i].seen.by # 0) =>
            IF lookups[i].now - lookups[i].seen.at < TTL_MS
            THEN /\ ~lookups[i].queried
                 /\ lookups[i].ret = lookups[i].seen.v
            ELSE lookups[i].queried

\* the same with the window counted from the timestamp of the entry, which
\* is the start of the call that wrote it
C24_WindowFromTimestamp ==
    \A i \in 1..MaxLookups :
        (Started(i) /\ lookups[i].seen.by # 0) =>
            IF lookups[i].now - lookups[i].seen.t < TTL_MS
            THEN /\ ~lookups[i].queried
                 /\ lookups[i].ret = lookups[i].seen.v
            ELSE lookups[i].queried

\* C25: two calls that missed the cache for one key while both were in
\* flight have both queried the store, and once both have written the
\* entry its timestamp is not older than the one the call that started
\* last wrote.
C25_RacingMissesBenign ==
    \A i, j \in 1..MaxLookups :
        (/\ i \in lookups[j].during
         /\ lookups[j].queried
         /\ lookups[i].st = "done" /\ lookups[j].st = "done")
            => /\ lookups[i].queried
               /\ CACHE_t[lookups[j].key].t >= lookups[j].now

\* ------------------------------------------------ combiner: further claims

\* the positions of the input items: (set, place in the set), in the order
\* in which the sets and their items come
Positions == {<<a, j>> : a \in 1..MaxSets + 1, j \in 1..MaxSetItems + 1}
InputPositions ==
    {p \in Positions : p[1] <= Len(analyses) /\ p[2] <= Len(analyses[p[1]].detectedItems)}
Before(p, q) == p[1] < q[1] \/ (p[1] = q[1] /\ p[2] < q[2])
ItemAt(p) == analyses[p[1]].detectedItems[p[2]]
\* the key of the item at p: id:<itemId>, name:<lowercased trimmed name>,
\* idx:<position>
KeyAt(p) ==
    LET it == ItemAt(p)
        nm == trim(toLowerCase(it.name))
    IN IF it.itemId > 0 THEN <<"id", it.itemId>>
       ELSE IF nm # <<>> THEN <<"name", nm>>
       ELSE <<"idx", p[2] - 1>>
\* the positions at which a key is seen first
FirstSeen == {p \in InputPositions : \A q \in InputPositions : KeyAt(q) = KeyAt(p) => ~Before(q, p)}
\* the place of a first-seen position among the first-seen positions
RankOf(p) == 1 + Cardinality({q \in FirstSeen : Before(q, p)})

C27_DistinctItemIds ==
    (Combined /\ Len(analyses) >= 2) =>
        \A g, h \in 1..Len(combined.detectedItems) :
            combined.detectedItems[g].itemId = combined.detectedItems[h].itemId => g = h

\* ------------------------------------------------ serving overrides: claims

\* the first positive value among the sources, in the order given
FirstPositive(sources) ==
    LET pos == {i \in 1..Len(sources) : sources[i] > 0}
    IN sources[CHOOSE i \in pos : \A j \in pos : i <= j]

\* C28: the grams of a matched item are the first positive value among the
\* grams of the override applied, the item's estimatedGrams, the default
\* serving grams of the match, and 100; the macros are those of the match
\* at these grams.
C28_GramsPriority ==
    gOut.matched =>
        LET override == IF gOut.appliedServingLabel.found
                        THEN gOut.appliedServingLabel.grams ELSE 0
            grams == FirstPositive(<<override, gItem.estimatedGrams,
                                     gPick.default_serving_g, 100>>)
        IN /\ gOut.estimatedGrams = grams
           /\ gOut.nutrition = macrosFromPer100(PickPer100, grams)

\* an override applies whose grams are 0 and the item has no positive
\* estimate: the default serving of the match is used
C28_Witness ==
    /\ gOut.matched
    /\ gOut.appliedServingLabel.found
    /\ gOut.appliedServingLabel.grams = 0
    /\ gItem.estimatedGrams = -10
    /\ gPick.default_serving_g = 180
    /\ gOut.estimatedGrams = 180

\* the user's overrides for the matched composition
Overrides ==
    IF gUserId = NULL THEN {}
    ELSE {r \in user_servings :
            /\ r.user_id = gUserId
            /\ \/ gPick.kind = "ingredient" /\ r.ingredient_id = gPick.id
               \/ gPick.kind = "recipe" /\ r.recipe_id = gPick.id}
\* the label occurs in the query text of the item, letter case apart
Occurs(label) == includes(toLowerCase(trim(gItem.name)), toLowerCase(label))
\* the select on user_servings answered
Fetched == Len(userServings) = Cardinality(Overrides)

\* C29: the override applied to a matched item is one of the user's
\* overrides for the matched composition, its label occurs in the item's
\* query text, and no override before it in the list the store returned has
\* a label that occurs there; an override is applied whenever the list holds
\* one whose label occurs, and none is applied when no label occurs or no
\* userId is given.
C29_FirstMatchingOverride ==
    gOut.matched =>
        LET applied == gOut.appliedServingLabel
        IN /\ applied.found =>
                \E i \in 1..Len(userServings) :
                    /\ userServings[i] \in Overrides
                    /\ applied.label = userServings[i].label
                    /\ applied.grams = userServings[i].grams
                    /\ Occurs(userServings[i].label)
                    /\ \A j \in 1..(i - 1) : ~Occurs(userServings[j].label)
           /\ (Fetched /\ \E r \in Overrides : Occurs(r.label)) => applied.found
           /\ (gUserId = NULL \/ \A r \in Overrides : ~Occurs(r.label)) => ~applied.found

\* two overrides of the user occur in the query "kd"; the one applied is
\* the first of the list, labelled "K"
C29_Witness ==
    /\ gOut.matched
    /\ Len(userServings) = 2
    /\ Occurs(userServings[1].label) /\ Occurs(userServings[2].label)
    /\ userServings[1].label = <<"K">>
    /\ gOut.appliedServingLabel = [found |-> TRUE, label |-> <<"K">>, grams |-> 250]
    /\ gOut.estimatedGrams = 250

\* ------------------------------------------- adjustment: repeated itemIds

\* the positions of a list of items that carry the itemId
EntriesOf(items, id) == {i \in 1..Len(items) : items[i].itemId = id}

\* C30: when an accepted edit list references the same known itemId more
\* than once, the persisted adjusted_items hold at most one entry for that
\* itemId.
C30_OneEntryPerItemId ==
    ares.status = 200 =>
        \A id \in BaseIds(food_analyses.detected_items) :
            Cardinality(EntriesOf(areq.adjustedItems, id)) > 1
                => Cardinality(EntriesOf(food_analyses.adjusted_items, id)) <= 1
====
